---- MODULE Spec2Model ----
(***************************************************************************)
(* Maintenance-job scheduling (masemolabrilliant/Process_Optimization).    *)
(*                                                                         *)
(* The module models                                                       *)
(*   - the greedy constructor, src/src/scheduler.py (Scheduler.run and the *)
(*     resource classes Equipment, Technician, Tool, Material, Job);       *)
(*   - the feasibility pre-check, src/src/precheck.py (precheck_jobs);     *)
(*   - the orchestrator, src/app.py (optimize), with the job filters and   *)
(*     the schedule construction of the four optimisers it dispatches to.  *)
(*                                                                         *)
(* Time is an integer number of ticks since Monday 00:00 of the first      *)
(* week.  A tick is the smallest step the code takes (timedelta(minutes=1) *)
(* in Scheduler.run, timedelta(seconds=1) in calculate_job_end_time); an   *)
(* hour is TicksPerHour ticks.  Durations are whole hours, as              *)
(* data_handler.load_and_validate_data delivers them (_as_int).            *)
(***************************************************************************)
EXTENDS Integers, Sequences, FiniteSets, TLC

(***************************************************************************)
(* Bounds of the model.                                                    *)
(***************************************************************************)
MaxJobs == 2

TicksPerHour == 2

HorizonDays == 1

\* the calendar functions are applied to the instants of this many days,
\* from a Monday 00:00, and to durations of up to MaxDuration hours
CalendarDays == 7

MaxDuration == 10

(***************************************************************************)
(* Program constants.                                                      *)
(***************************************************************************)
\* Scheduler(data, workday_start="08:00", workday_end="17:00", workdays=[0..4])
SchedWorkdayStart == 8

SchedWorkdayEnd == 17

SchedWorkdays == {0, 1, 2, 3, 4}

\* Technician.__init__ defaults: workday_start="08:00", workday_end="18:00"
TechWorkdayStart == 8

TechWorkdayEnd == 18

TechWorkdays == {0, 1, 2, 3, 4}

\* precheck.py: WORKDAY_START, WORKDAY_END
WORKDAY_START == 8

WORKDAY_END == 17

VARIABLES
    data,                 \* the input bundle (jobs, equipment, technicians, tools, materials, t_start, t_end)
    workdays,             \* Scheduler.workdays: the set of working weekdays (Monday = 0)
    current_time,         \* Scheduler.current_time
    status,               \* Job.status, per job
    scheduled_start_time, \* Job.scheduled_start_time, per job (-1: None)
    scheduled_end_time,   \* Job.scheduled_end_time, per job (-1: None)
    assigned_technicians, \* Job.assigned_technicians, per job (sequence of technician indices)
    equipment_schedule,   \* Equipment.schedule, per equipment: sequence of <<start, end, job>>
    tech_assignments,     \* Technician.assignments, per technician: sequence of <<start, end, job>>
    tool_reservations,    \* Tool.reservations, per tool: sequence of <<start, end, quantity>>
    quantity_used,        \* Material.quantity_used, per material
    schedule,             \* Scheduler.schedule: committed jobs in commit order
    unscheduled_jobs,     \* Scheduler.unscheduled_jobs: sequence of <<job, reason>>
    pc,                   \* position in Scheduler.run
    priority,             \* the priority group being processed
    group_unscheduled,    \* the local list unscheduled_jobs of Scheduler.run
    algorithm,            \* the strategy requested ("GREEDY": run_scheduler; else optimize's form field)
    unscheduled,          \* optimize: the rejection list of precheck_jobs, sequence of <<job, reasons>>
    feasible,             \* optimize: the feasible list of precheck_jobs, sequence of jobs
    optimized_schedule,   \* optimize: the list returned by the optimiser
    solver_status,        \* the status of solver.Solve(model) ("NOT_RUN": no solve)
    instant,              \* the instant a calendar function is applied to
    duration_arg,         \* the duration (hours) calculate_job_end_time is applied to
    applied,              \* the calendar function that has been applied ("none": not yet)
    result,               \* the value that function returned
    horizon_end,          \* the end of the horizon generate_working_windows is applied to
    windows,              \* the list generate_working_windows returned
    candidate,            \* the two candidate schedules the scoring functions are applied to
    scored,               \* the scoring functions that have been applied ("none": not yet)
    ga_fitness,           \* GeneticAlgorithm.fitness of each candidate
    sa_score,             \* optimiser_sa.evaluate of each candidate
    sa_current,           \* optimiser_sa.optimize_schedule: current, the accepted solution
    sa_best,              \* optimize_schedule: best, the best solution
    current_score,        \* optimize_schedule: evaluate(current)
    best_score,           \* optimize_schedule: the score of best
    iteration,            \* optimize_schedule: iterations of the annealing loop so far
    least_score,          \* the least score of the initial solution and of the candidates so far
    returned,             \* the list optimize_schedule returned
    heap,                 \* GA: the entry dictionaries, by identity: their start and technicians
    population,           \* GeneticAlgorithm.optimize: population, lists of entry identities
    new_population,       \* optimize: new_population
    children,             \* optimize: child1, child2 (entry identities)
    parents,              \* optimize: parent1, parent2 (indices into population)
    generation,           \* optimize: generations completed
    best_individual,      \* optimize: best_individual (entry identities)
    least_cost,           \* the least FitnessCost of the individuals of all populations so far
    unscheduled_file,     \* data/unscheduled_jobs_<algorithm>.json, per strategy: whether it exists, its content
    reported_unscheduled, \* optimize: unscheduled_jobs, the rejection list read back and flashed
    runs                  \* the requests posted so far, this one included

orchestrator_vars == <<algorithm, unscheduled, feasible, optimized_schedule,
                       solver_status, unscheduled_file, reported_unscheduled, runs>>

scheduler_vars == <<workdays, current_time, status, scheduled_start_time, scheduled_end_time,
                    assigned_technicians, equipment_schedule, tech_assignments,
                    tool_reservations, quantity_used, schedule, unscheduled_jobs,
                    priority, group_unscheduled>>

calendar_vars == <<instant, duration_arg, applied, result, horizon_end, windows>>

scoring_vars == <<candidate, scored, ga_fitness, sa_score>>

annealing_vars == <<sa_current, sa_best, current_score, best_score, iteration, least_score,
                    returned>>

genetic_vars == <<heap, population, new_population, children, parents, generation,
                  best_individual, least_cost>>

\* what a request leaves alone
function_vars == <<calendar_vars, scoring_vars, annealing_vars, genetic_vars>>

vars == <<data, pc, scheduler_vars, orchestrator_vars, function_vars>>

(***************************************************************************)
(* Calendar arithmetic (datetime).                                         *)
(***************************************************************************)
DayTicks == 24 * TicksPerHour

DateOf(t) == t \div DayTicks

TimeOfDay(t) == t % DayTicks

Weekday(t) == DateOf(t) % 7

Combine(date, hour) == date * DayTicks + hour * TicksPerHour

Hours(h) == h * TicksPerHour

\* the first date after `date` whose weekday is a workday (the `while True` loop)
NextWorkdayDate(date) ==
    date + (CHOOSE k \in 1..7 :
               /\ ((date + k) % 7) \in workdays
               /\ \A m \in 1..(k - 1) : ((date + m) % 7) \notin workdays)

\* the `while True` loop finds no workday: `time += timedelta(days=1)` runs
\* past datetime.max and raises OverflowError
NextWorkingTimeOverflows(time) ==
    /\ TimeOfDay(time) >= Hours(SchedWorkdayEnd) \/ Weekday(time) \notin workdays
    /\ \A k \in 0..6 : k \notin workdays

get_next_working_time(time) ==
    IF TimeOfDay(time) >= Hours(SchedWorkdayEnd) \/ Weekday(time) \notin workdays
    THEN Combine(NextWorkdayDate(DateOf(time)), SchedWorkdayStart)
    ELSE IF TimeOfDay(time) < Hours(SchedWorkdayStart)
         THEN Combine(DateOf(time), SchedWorkdayStart)
         ELSE time

\* an end time that stops at the close of the day the job starts on
EndAtCloseOfDay(cur, remaining) ==
    IF Combine(DateOf(cur), SchedWorkdayEnd) - cur >= remaining
    THEN cur + remaining
    ELSE Combine(DateOf(cur), SchedWorkdayEnd)

RECURSIVE EndTimeLoop(_, _)
EndTimeLoop(cur, remaining) ==
    IF remaining > 0
    THEN LET workday_end == Combine(DateOf(cur), SchedWorkdayEnd)
             time_available == workday_end - cur
         IN  IF time_available >= remaining
             THEN cur + remaining
             ELSE EndTimeLoop(get_next_working_time(workday_end + 1),
                              remaining - time_available)
    ELSE cur

\* an end time that ignores the calendar
EndTimeWithoutCalendar(start_time, duration) == start_time + duration

calculate_job_end_time(start_time, duration) == EndTimeLoop(start_time, duration)

is_within_working_hours(time) ==
    /\ Weekday(time) \in workdays
    /\ Hours(SchedWorkdayStart) <= TimeOfDay(time)
    /\ TimeOfDay(time) < Hours(SchedWorkdayEnd)

(***************************************************************************)
(* The input bundle.                                                       *)
(***************************************************************************)
JobIds == 1..Len(data.jobs)

TechIds == 1..Len(data.technicians)

EquipmentIds == DOMAIN data.equipment

ToolIds == DOMAIN data.tools

MaterialIds == DOMAIN data.materials

Job(j) == data.jobs[j]

\* Job.duration = timedelta(hours=job_data['duration'])
Duration(j) == Hours(Job(j).duration)

(***************************************************************************)
(* Availability predicates of the resource classes.                        *)
(***************************************************************************)
Overlaps(start_time, end_time, s, e) == ~(end_time <= s \/ start_time >= e)

\* is_available with each reservation's start in place of its end
EquipmentComparedWithStart(eq, start_time, end_time) ==
    \A i \in 1..Len(equipment_schedule[eq]) :
        (end_time <= equipment_schedule[eq][i][1]
         \/ start_time >= equipment_schedule[eq][i][1])

EquipmentIsAvailable(eq, start_time, end_time) ==
    \A i \in 1..Len(equipment_schedule[eq]) :
        ~Overlaps(start_time, end_time,
                  equipment_schedule[eq][i][1], equipment_schedule[eq][i][2])

TechnicianIsAvailable(t, start_time, end_time) ==
    /\ ~(TimeOfDay(start_time) < Hours(TechWorkdayStart)
         \/ TimeOfDay(end_time) > Hours(TechWorkdayEnd))
    /\ ~(Weekday(start_time) \notin TechWorkdays
         \/ Weekday(end_time) \notin TechWorkdays)
    /\ \A i \in 1..Len(tech_assignments[t]) :
           ~Overlaps(start_time, end_time,
                     tech_assignments[t][i][1], tech_assignments[t][i][2])

RECURSIVE SumReserved(_, _, _)
SumReserved(res, start_time, end_time) ==
    IF res = <<>> THEN 0
    ELSE (IF Overlaps(start_time, end_time, Head(res)[1], Head(res)[2])
          THEN Head(res)[3] ELSE 0)
         + SumReserved(Tail(res), start_time, end_time)

\* is_available that asks for one free unit whatever the quantity needed
ToolHasOneFree(tool, start_time, end_time, quantity_needed) ==
    (data.tools[tool] - SumReserved(tool_reservations[tool], start_time, end_time))
        >= 1

ToolIsAvailable(tool, start_time, end_time, quantity_needed) ==
    (data.tools[tool] - SumReserved(tool_reservations[tool], start_time, end_time))
        >= quantity_needed

MaterialIsAvailable(mat, quantity_needed) ==
    (data.materials[mat] - quantity_used[mat]) >= quantity_needed

\* Job.is_ready
is_ready(j) ==
    \A pred \in Job(j).precedence :
        pred \in JobIds /\ status[pred] = "scheduled"

(***************************************************************************)
(* Scheduler.is_job_feasible and can_assign_technicians, evaluated with    *)
(* Scheduler.current_time = ct.                                            *)
(***************************************************************************)
ProposedStart(ct) == get_next_working_time(ct)

ProposedEnd(j, ct) == calculate_job_end_time(ProposedStart(ct), Duration(j))

AvailableTechs(j, ct) ==
    {t \in TechIds : TechnicianIsAvailable(t, ProposedStart(ct), ProposedEnd(j, ct))}

SkillsCovered(combo) == UNION {data.technicians[t].skills : t \in combo}

Covers(j, combo) == Job(j).required_skills \subseteq SkillsCovered(combo)

\* itertools.combinations yields the r-subsets in lexicographic order of positions
ComboBefore(a, b) ==
    LET diff == (a \ b) \cup (b \ a)
    IN  diff # {} /\ (CHOOSE x \in diff : \A y \in diff : x <= y) \in a

CoveringCombos(j, avail) ==
    {c \in (SUBSET avail) \ {{}} : Covers(j, c)}

\* a search that settles for every available technician
EveryAvailableTechnician(j, avail) == avail

\* the first covering combination, sizes ascending (for r in range(1, len + 1))
FirstCover(j, avail) ==
    CHOOSE c \in CoveringCombos(j, avail) :
        \A d \in CoveringCombos(j, avail) \ {c} :
            \/ Cardinality(c) < Cardinality(d)
            \/ Cardinality(c) = Cardinality(d) /\ ComboBefore(c, d)

can_assign_technicians(j, avail) == CoveringCombos(j, avail) # {}

\* the checks of is_job_feasible that precede the technician search
ReachesTechCheck(j, ct) ==
    /\ is_ready(j)
    /\ ~(ProposedEnd(j, ct) > data.t_end)
    /\ EquipmentIsAvailable(Job(j).equipment_id, ProposedStart(ct), ProposedEnd(j, ct))

ToolsAvailable(j, ct) ==
    \A i \in 1..Len(Job(j).required_tools) :
        LET req == Job(j).required_tools[i]
        IN  /\ req.tool_id \in ToolIds
            /\ ToolIsAvailable(req.tool_id, ProposedStart(ct), ProposedEnd(j, ct),
                               req.quantity)

MaterialsAvailable(j) ==
    \A i \in 1..Len(Job(j).required_materials) :
        LET req == Job(j).required_materials[i]
        IN  /\ req.material_id \in MaterialIds
            /\ MaterialIsAvailable(req.material_id, req.quantity)

is_job_feasible(j, ct) ==
    /\ ReachesTechCheck(j, ct)
    /\ can_assign_technicians(j, AvailableTechs(j, ct))
    /\ ToolsAvailable(j, ct)
    /\ MaterialsAvailable(j)

\* job.assigned_technicians after the scan of the pending jobs at ct
\* (can_assign_technicians stores the combination it finds)
AssignedAfterScan(ct) ==
    [j \in JobIds |->
        IF /\ \E i \in 1..Len(group_unscheduled) : group_unscheduled[i] = j
           /\ ReachesTechCheck(j, ct)
           /\ can_assign_technicians(j, AvailableTechs(j, ct))
        THEN FirstCover(j, AvailableTechs(j, ct))
        ELSE assigned_technicians[j]]

FeasibleJobs(ct) ==
    SelectSeq(group_unscheduled, LAMBDA j : is_job_feasible(j, ct))

(***************************************************************************)
(* Scheduler.select_best_job and its helpers.                              *)
(***************************************************************************)
RECURSIVE SeqSum(_)
SeqSum(s) == IF s = <<>> THEN 0 ELSE Head(s) + SeqSum(Tail(s))

SetMax(S) == CHOOSE x \in S : \A y \in S : y <= x

SetMin(S) == CHOOSE x \in S : \A y \in S : x <= y

calculate_cumulative_scheduled_times ==
    [eq \in EquipmentIds |->
        SeqSum([i \in 1..Len(schedule) |->
                  IF Job(schedule[i]).equipment_id = eq
                  THEN scheduled_end_time[schedule[i]] - scheduled_start_time[schedule[i]]
                  ELSE 0])]

evaluate_job_impact(j, ct) ==
    LET cum == calculate_cumulative_scheduled_times
        job_duration == ProposedEnd(j, ct) - ProposedStart(ct)
        sim == [cum EXCEPT ![Job(j).equipment_id] = @ + job_duration]
    IN  SetMax({sim[eq] : eq \in EquipmentIds})

Increase(j, ct) ==
    evaluate_job_impact(j, ct)
        - SetMax({calculate_cumulative_scheduled_times[eq] : eq \in EquipmentIds})

\* a selection that takes the head of the list
FirstFeasibleJob(feasible_jobs, ct) == feasible_jobs[1]

\* the first job of the list with the least increase (`increase < least_increase`)
select_best_job(feasible_jobs, ct) ==
    LET best == CHOOSE i \in 1..Len(feasible_jobs) :
                    /\ \A k \in 1..Len(feasible_jobs) :
                           Increase(feasible_jobs[i], ct) <= Increase(feasible_jobs[k], ct)
                    /\ \A k \in 1..(i - 1) :
                           Increase(feasible_jobs[k], ct) > Increase(feasible_jobs[i], ct)
    IN  feasible_jobs[best]

(***************************************************************************)
(* Scheduler.run: grouping and ordering.                                   *)
(***************************************************************************)
get_predecessors_duration(j) ==
    LET preds == {p \in Job(j).precedence : p \in JobIds}
        RECURSIVE Sum(_)
        Sum(S) == IF S = {} THEN 0
                  ELSE LET p == CHOOSE x \in S : TRUE
                       IN  Duration(p) + Sum(S \ {p})
    IN  Sum(preds)

effective_duration(j) == Duration(j) + get_predecessors_duration(j)

GroupJobs(p) == {j \in JobIds : data.equipment[Job(j).equipment_id] = p}

\* group_jobs.sort(key=effective_duration): stable, so ties keep the order of self.jobs
SortsBefore(a, b) ==
    \/ effective_duration(a) < effective_duration(b)
    \/ effective_duration(a) = effective_duration(b) /\ a < b

SortedGroup(p) ==
    [i \in 1..Cardinality(GroupJobs(p)) |->
        CHOOSE j \in GroupJobs(p) :
            Cardinality({k \in GroupJobs(p) : SortsBefore(k, j)}) = i - 1]

\* a reason that never looks at the predecessors
ResourceReasonOnly(j) == "Resource constraints or scheduling window exceeded."

get_unfeasibility_reason(j) ==
    IF ~is_ready(j) THEN "Predecessor jobs not completed."
    ELSE "Resource constraints or scheduling window exceeded."

(***************************************************************************)
(* Input bundles.  Every bundle has the two pieces of equipment E1 and E2, *)
(* one drill, one unit of steel and three technicians; the horizon starts  *)
(* on Monday at the start of the workday and ends HorizonDays days later   *)
(* at its end (data_handler._compute_window).                              *)
(***************************************************************************)
Technicians ==
    << [skills |-> {"s1"}], [skills |-> {"s1", "s2"}], [skills |-> {"s3"}] >>

Tools == [drill |-> 1]

Materials == [steel |-> 1]

ToolReq(q) == [tool_id |-> "drill", quantity |-> q]

MaterialReq(q) == [material_id |-> "steel", quantity |-> q]

\* jobs that differ in duration, equipment and predecessors
TimingJobs(n) ==
    [duration : {2, 10}, equipment_id : {"E1", "E2"}, required_skills : {{"s1"}},
     required_tools : {<<>>}, required_materials : {<<>>},
     precedence : {{}} \cup {{k} : k \in 1..n}]

\* jobs that differ in equipment and in what they require
RequirementProfiles ==
    {[required_skills |-> {"s1"}, required_tools |-> <<>>, required_materials |-> <<>>],
     [required_skills |-> {"s2", "s3"}, required_tools |-> <<>>, required_materials |-> <<>>],
     [required_skills |-> {}, required_tools |-> <<>>, required_materials |-> <<>>],
     [required_skills |-> {"s1"}, required_tools |-> <<ToolReq(1)>>, required_materials |-> <<>>],
     [required_skills |-> {"s1"}, required_tools |-> <<ToolReq(1), ToolReq(1)>>, required_materials |-> <<>>],
     [required_skills |-> {"s1"}, required_tools |-> <<ToolReq(2)>>, required_materials |-> <<>>],
     [required_skills |-> {"s1"}, required_tools |-> <<>>, required_materials |-> <<MaterialReq(1)>>],
     [required_skills |-> {"s1"}, required_tools |-> <<>>, required_materials |-> <<MaterialReq(1), MaterialReq(1)>>],
     [required_skills |-> {"s1"}, required_tools |-> <<>>, required_materials |-> <<MaterialReq(2)>>]}

ResourceJobs ==
    {[duration |-> 2, equipment_id |-> e, required_skills |-> r.required_skills,
      required_tools |-> r.required_tools, required_materials |-> r.required_materials,
      precedence |-> {}] : e \in {"E1", "E2"}, r \in RequirementProfiles}

SeqsOf(S, n) == [1..n -> S]

Bundle(jobs, equipment) ==
    [jobs |-> jobs, equipment |-> equipment, technicians |-> Technicians,
     tools |-> Tools, materials |-> Materials,
     t_start |-> Combine(0, SchedWorkdayStart),
     t_end |-> Combine(HorizonDays, SchedWorkdayEnd)]

\* jobs of one priority group whose order by effective duration differs from
\* their order by increase of the largest cumulative equipment time
SelectionJobs ==
    [duration : {2, 3}, equipment_id : {"E1", "E2"}, required_skills : {{"s1"}},
     required_tools : {<<>>}, required_materials : {<<>>},
     precedence : {{}, {1}}]

\* jobs whose skill only the third technician has
SoleTechnicianJobs ==
    [duration : {2, 10}, equipment_id : {"E1", "E2"}, required_skills : {{"s3"}},
     required_tools : {<<>>}, required_materials : {<<>>}, precedence : {{}}]

\* Equipment.priority per equipment: one group, two groups in either order
\* of the equipment ids, and a priority that is none of 1, 2, 3
EquipmentPriorities ==
    {[E1 |-> 1, E2 |-> 1], [E1 |-> 1, E2 |-> 2], [E1 |-> 3, E2 |-> 2],
     [E1 |-> 1, E2 |-> 4]}

Bundles ==
    UNION {
        {Bundle(jobs, eq) : jobs \in SeqsOf(TimingJobs(n), n),
                            eq \in EquipmentPriorities}
        \cup {Bundle(jobs, [E1 |-> 1, E2 |-> 1]) : jobs \in SeqsOf(ResourceJobs, n)}
        : n \in 1..MaxJobs}
    \cup {Bundle(jobs, [E1 |-> 1, E2 |-> 1]) : jobs \in SeqsOf(SelectionJobs, MaxJobs + 1)}
    \cup {Bundle(jobs, [E1 |-> 1, E2 |-> 1]) : jobs \in SeqsOf(SoleTechnicianJobs, MaxJobs)}

\* jobs for the optimisers: one per way of passing or failing a pre-check
OptimizerJob(skills, duration, tools, materials, eq) ==
    [duration |-> duration, equipment_id |-> eq, required_skills |-> skills,
     required_tools |-> tools, required_materials |-> materials, precedence |-> {}]

FirstJobs ==
    {OptimizerJob({"s1"}, 2, <<>>, <<>>, "E1"),
     OptimizerJob({"s2", "s3"}, 2, <<>>, <<>>, "E1"),
     OptimizerJob({}, 2, <<>>, <<>>, "E1"),
     OptimizerJob({"s1"}, 10, <<>>, <<>>, "E1"),
     OptimizerJob({"s1"}, 2, <<ToolReq(1)>>, <<>>, "E1"),
     OptimizerJob({"s1"}, 2, <<ToolReq(2)>>, <<>>, "E1"),
     OptimizerJob({"s1"}, 2, <<ToolReq(2), ToolReq(3)>>, <<MaterialReq(2)>>, "E1"),
     OptimizerJob({"s1"}, 2, <<>>, <<MaterialReq(2)>>, "E1")}

LaterJobs ==
    {OptimizerJob({"s1"}, 2, <<>>, <<>>, "E1"),
     OptimizerJob({"s1"}, 2, <<>>, <<>>, "E2"),
     OptimizerJob({"s1"}, 2, <<ToolReq(1)>>, <<>>, "E2")}

OptimizerJobLists(n) ==
    {jobs \in SeqsOf(FirstJobs \cup LaterJobs, n) :
        /\ jobs[1] \in FirstJobs
        /\ \A i \in 2..n : jobs[i] \in LaterJobs}

OptimizerBundles ==
    UNION {{Bundle(jobs, [E1 |-> 1, E2 |-> 1]) : jobs \in OptimizerJobLists(n)}
           : n \in 1..MaxJobs}
    \cup {[Bundle(<<job>>, [E1 |-> 1, E2 |-> 1]) EXCEPT !.technicians = <<>>]
           : job \in FirstJobs}

Algorithms == {"GREEDY", "MILP", "ORTOOLS", "GA", "SA"}

\* a file of the data directory that does not exist
NoFile == [exists |-> FALSE, content |-> <<>>]

\* the workdays argument of Scheduler.__init__: the Monday-to-Friday week
\* and the week without a working day
Calendars == {SchedWorkdays, {}}

(***************************************************************************)
(* The state before a request: Scheduler.__init__ for run_scheduler, the   *)
(* POST of the form for optimize.                                          *)
(***************************************************************************)
Init ==
    /\ algorithm \in Algorithms
    /\ data \in IF algorithm = "GREEDY" THEN Bundles ELSE OptimizerBundles
    /\ workdays \in IF algorithm = "GREEDY" THEN Calendars ELSE {SchedWorkdays}
    /\ current_time = data.t_start
    /\ status = [j \in JobIds |-> "unscheduled"]
    /\ scheduled_start_time = [j \in JobIds |-> -1]
    /\ scheduled_end_time = [j \in JobIds |-> -1]
    /\ assigned_technicians = [j \in JobIds |-> {}]
    /\ equipment_schedule = [eq \in EquipmentIds |-> <<>>]
    /\ tech_assignments = [t \in TechIds |-> <<>>]
    /\ tool_reservations = [tool \in ToolIds |-> <<>>]
    /\ quantity_used = [mat \in MaterialIds |-> 0]
    /\ schedule = <<>>
    /\ unscheduled_jobs = <<>>
    /\ pc = IF algorithm = "GREEDY" THEN "begin" ELSE "post"
    /\ priority = 1
    /\ group_unscheduled = <<>>
    /\ unscheduled = <<>>
    /\ feasible = <<>>
    /\ optimized_schedule = <<>>
    /\ solver_status = "NOT_RUN"
    /\ instant = 0
    /\ duration_arg = 0
    /\ applied = "none"
    /\ result = 0
    /\ horizon_end = 0
    /\ windows = <<>>
    /\ candidate = <<>>
    /\ scored = "none"
    /\ ga_fitness = <<>>
    /\ sa_score = <<>>
    /\ sa_current = <<>>
    /\ sa_best = <<>>
    /\ current_score = 0
    /\ best_score = 0
    /\ iteration = 0
    /\ least_score = 0
    /\ returned = <<>>
    /\ heap = <<>>
    /\ population = <<>>
    /\ new_population = <<>>
    /\ children = <<>>
    /\ parents = <<>>
    /\ generation = 0
    /\ best_individual = <<>>
    /\ least_cost = 0
    /\ unscheduled_file = [a \in Algorithms |-> NoFile]
    /\ reported_unscheduled = <<>>
    /\ runs = 1

(***************************************************************************)
(* Scheduler.run                                                           *)
(***************************************************************************)
\* priority_groups = {1: [], 2: [], 3: []}
PriorityKeys == {1, 2, 3}

\* priority_groups[equipment.priority].append(job) finds no such key
GroupingFails ==
    \E j \in JobIds : data.equipment[Job(j).equipment_id] \notin PriorityKeys

\* the grouping loop raises KeyError and the exception leaves Scheduler.run
GroupingRaises ==
    /\ UNCHANGED function_vars
    /\ UNCHANGED orchestrator_vars
    /\ pc = "begin"
    /\ priority = 1
    /\ GroupingFails
    /\ pc' = "key_error"
    /\ UNCHANGED <<data, scheduler_vars>>

\* a cursor that every priority group starts from the beginning of the horizon
CursorAtHorizonStart(ct) == data.t_start

\* the cursor a priority group starts from: the body of the for loop assigns
\* self.current_time only inside the while loop, so it is the cursor that
\* the group before left
GroupCursor(ct) == ct

\* for priority in sorted(priority_groups.keys()): sort the group, copy it
BeginGroup ==
    /\ UNCHANGED function_vars
    /\ UNCHANGED orchestrator_vars
    /\ pc = "begin"
    /\ ~GroupingFails
    /\ group_unscheduled' = SortedGroup(priority)
    /\ current_time' = GroupCursor(current_time)
    /\ pc' = "loop"
    /\ UNCHANGED <<data, workdays, status, scheduled_start_time,
                   scheduled_end_time, assigned_technicians, equipment_schedule,
                   tech_assignments, tool_reservations, quantity_used, schedule,
                   unscheduled_jobs, priority>>

LoopCondition == current_time < data.t_end /\ group_unscheduled # <<>>

\* the entries of a requirement list that name `id`, as reservations
ToolReservationsOf(j, tool, start_time, end_time) ==
    LET reqs == SelectSeq(Job(j).required_tools, LAMBDA r : r.tool_id = tool)
    IN  [i \in 1..Len(reqs) |-> <<start_time, end_time, reqs[i].quantity>>]

MaterialAllocatedBy(j, mat) ==
    LET reqs == SelectSeq(Job(j).required_materials, LAMBDA r : r.material_id = mat)
    IN  SeqSum([i \in 1..Len(reqs) |-> reqs[i].quantity])

\* one iteration of the while loop that finds a feasible job:
\* select_best_job, schedule_job (with assign_resources), remove
CommitJob ==
    /\ UNCHANGED function_vars
    /\ UNCHANGED orchestrator_vars
    /\ pc = "loop"
    /\ LoopCondition
    /\ ~NextWorkingTimeOverflows(current_time)
    /\ LET ct == get_next_working_time(current_time)
           feasible_jobs == FeasibleJobs(ct)
       IN  /\ feasible_jobs # <<>>
           /\ LET best_job == select_best_job(feasible_jobs, ct)
                  start_time == ProposedStart(ct)
                  end_time == ProposedEnd(best_job, ct)
                  techs == AssignedAfterScan(ct)[best_job]
              IN  /\ current_time' = ct
                  /\ assigned_technicians' = AssignedAfterScan(ct)
                  /\ scheduled_start_time' =
                         [scheduled_start_time EXCEPT ![best_job] = start_time]
                  /\ scheduled_end_time' =
                         [scheduled_end_time EXCEPT ![best_job] = end_time]
                  /\ status' = [status EXCEPT ![best_job] = "scheduled"]
                  /\ tech_assignments' =
                         [t \in TechIds |->
                             IF t \in techs
                             THEN Append(tech_assignments[t],
                                         <<start_time, end_time, best_job>>)
                             ELSE tech_assignments[t]]
                  /\ tool_reservations' =
                         [tool \in ToolIds |->
                             tool_reservations[tool]
                                 \o ToolReservationsOf(best_job, tool, start_time, end_time)]
                  /\ quantity_used' =
                         [mat \in MaterialIds |->
                             quantity_used[mat] + MaterialAllocatedBy(best_job, mat)]
                  /\ equipment_schedule' =
                         [equipment_schedule EXCEPT ![Job(best_job).equipment_id] =
                             Append(@, <<start_time, end_time, best_job>>)]
                  /\ schedule' = Append(schedule, best_job)
                  /\ group_unscheduled' =
                         SelectSeq(group_unscheduled, LAMBDA j : j # best_job)
    /\ UNCHANGED <<data, workdays, unscheduled_jobs, pc, priority>>

\* the else branch of the loop with the time it leaves in a place of
\* its own choosing: no advance at all
TimeNotAdvanced(ct) == ct

\* the else branch of the loop: the earliest committed end after ct, else
\* the next working time after ct + timedelta(minutes=1) (one tick here)
AdvancedTime(ct) ==
    LET next_times == {t \in {scheduled_end_time[schedule[i]] : i \in 1..Len(schedule)} :
                          t > ct}
    IN  IF next_times # {}
        THEN get_next_working_time(SetMin(next_times))
        ELSE get_next_working_time(ct + 1)

\* one iteration of the while loop that finds no feasible job
AdvanceTime ==
    /\ UNCHANGED function_vars
    /\ UNCHANGED orchestrator_vars
    /\ pc = "loop"
    /\ LoopCondition
    /\ ~NextWorkingTimeOverflows(current_time)
    /\ LET ct == get_next_working_time(current_time)
       IN  /\ FeasibleJobs(ct) = <<>>
           /\ assigned_technicians' = AssignedAfterScan(ct)
           /\ current_time' = AdvancedTime(ct)
    /\ UNCHANGED <<data, workdays, status, scheduled_start_time, scheduled_end_time,
                   equipment_schedule, tech_assignments, tool_reservations,
                   quantity_used, schedule, unscheduled_jobs, pc, priority,
                   group_unscheduled>>

\* get_next_working_time raises at the top of an iteration (line 241)
\* and the exception leaves Scheduler.run
RunOverflows ==
    /\ UNCHANGED function_vars
    /\ UNCHANGED orchestrator_vars
    /\ pc = "loop"
    /\ LoopCondition
    /\ NextWorkingTimeOverflows(current_time)
    /\ pc' = "overflow_error"
    /\ UNCHANGED <<data, scheduler_vars>>

\* the loop has ended: record the jobs of the group that are still pending
EndGroup ==
    /\ UNCHANGED function_vars
    /\ UNCHANGED orchestrator_vars
    /\ pc = "loop"
    /\ ~LoopCondition
    /\ unscheduled_jobs' =
           unscheduled_jobs
               \o [i \in 1..Len(group_unscheduled) |->
                      <<group_unscheduled[i],
                        get_unfeasibility_reason(group_unscheduled[i])>>]
    /\ group_unscheduled' = <<>>
    /\ IF priority < 3
       THEN priority' = priority + 1 /\ pc' = "begin"
       ELSE priority' = priority /\ pc' = "done"
    /\ UNCHANGED <<data, workdays, current_time, status, scheduled_start_time,
                   scheduled_end_time, assigned_technicians, equipment_schedule,
                   tech_assignments, tool_reservations, quantity_used, schedule>>

(***************************************************************************)
(* precheck_jobs (src/src/precheck.py), as a function of the bundle.       *)
(* A reason string is modelled by a tuple of the values it is formatted    *)
(* from.                                                                   *)
(***************************************************************************)
\* _daily_work_hours()
daily_work_hours == WORKDAY_END - WORKDAY_START

\* tool_caps.get(req['tool_id'], 0)
ToolCap(d, id) == IF id \in DOMAIN d.tools THEN d.tools[id] ELSE 0

MaterialCap(d, id) == IF id \in DOMAIN d.materials THEN d.materials[id] ELSE 0

ToolReasons(d, job) ==
    LET failing == SelectSeq(job.required_tools,
                             LAMBDA req : req.quantity > ToolCap(d, req.tool_id))
    IN  [i \in 1..Len(failing) |->
            <<"tool", failing[i].tool_id, failing[i].quantity,
              ToolCap(d, failing[i].tool_id)>>]

MaterialReasons(d, job) ==
    LET failing == SelectSeq(job.required_materials,
                             LAMBDA req : req.quantity > MaterialCap(d, req.material_id))
    IN  [i \in 1..Len(failing) |->
            <<"material", failing[i].material_id, failing[i].quantity,
              MaterialCap(d, failing[i].material_id)>>]

\* eligible = [t for t in techs if req_skills.issubset(set(t['skills']))]
Eligible(d, job) ==
    {t \in 1..Len(d.technicians) : job.required_skills \subseteq d.technicians[t].skills}

SkillReasons(d, job) ==
    IF Eligible(d, job) = {} /\ job.required_skills # {}
    THEN << <<"skills">> >> ELSE <<>>

\* a pre-check without the duration check
NoDurationReasons(d, job) == <<>>

DurationReasons(d, job) ==
    IF job.duration > daily_work_hours
    THEN << <<"duration", job.duration, daily_work_hours>> >> ELSE <<>>

PrecheckReasons(d, job) ==
    ToolReasons(d, job) \o MaterialReasons(d, job)
        \o SkillReasons(d, job) \o DurationReasons(d, job)

\* the indices of the jobs precheck_jobs returns in `unscheduled` and in `feasible`
PrecheckUnscheduled(d) ==
    SelectSeq([i \in 1..Len(d.jobs) |-> i],
              LAMBDA j : PrecheckReasons(d, d.jobs[j]) # <<>>)

PrecheckFeasible(d) ==
    SelectSeq([i \in 1..Len(d.jobs) |-> i],
              LAMBDA j : PrecheckReasons(d, d.jobs[j]) = <<>>)

(***************************************************************************)
(* optimize (src/app.py): the review of the pre-check, then the optimiser. *)
(***************************************************************************)
\* POST without `confirmed`: precheck_jobs; the review page if it rejects a job
Review ==
    /\ UNCHANGED function_vars
    /\ pc = "post"
    /\ unscheduled' = [i \in 1..Len(PrecheckUnscheduled(data)) |->
                          <<PrecheckUnscheduled(data)[i],
                            PrecheckReasons(data, Job(PrecheckUnscheduled(data)[i]))>>]
    /\ feasible' = PrecheckFeasible(data)
    /\ pc' = IF PrecheckUnscheduled(data) # <<>> THEN "review" ELSE "optimize"
    /\ UNCHANGED <<data, scheduler_vars, algorithm, optimized_schedule, solver_status,
                   unscheduled_file, reported_unscheduled, runs>>

\* POST with confirmed=1 from the review page: the pre-check is skipped
Confirm ==
    /\ UNCHANGED function_vars
    /\ pc = "review"
    /\ pc' = "optimize"
    /\ UNCHANGED <<data, scheduler_vars, orchestrator_vars>>

(***************************************************************************)
(* What the optimisers share: the entries of the list they return and, in  *)
(* each file, the same quantity pre-check.                                 *)
(***************************************************************************)
Assignment(j, start_time, end_time, techs) ==
    [job_id |-> j, scheduled_start_time |-> start_time,
     scheduled_end_time |-> end_time, assigned_technicians |-> techs]

\* the lists with one entry of genes[j] for each job j of `jobs`, in order
RECURSIVE Products(_, _)
Products(jobs, genes) ==
    IF jobs = <<>> THEN {<<>>}
    ELSE {<<g>> \o rest : g \in genes[Head(jobs)],
                          rest \in Products(Tail(jobs), genes)}

JobList == [i \in 1..Len(data.jobs) |-> i]

\* the tool and material reasons of an optimiser's own pre-check
QuantityReasons(j) == ToolReasons(data, Job(j)) \o MaterialReasons(data, Job(j))

\* technicians whose skills include all the skills the job requires
SubsetTechs(j) ==
    {t \in TechIds : Job(j).required_skills \subseteq data.technicians[t].skills}

\* technicians who have at least one of the skills the job requires
IntersectingTechs(j) ==
    {t \in TechIds : Job(j).required_skills \cap data.technicians[t].skills # {}}

SubsetsOfSize(S, n) == {T \in SUBSET S : Cardinality(T) = n}

\* the list `unscheduled` of an optimiser's own pre-check: the jobs with a
\* quantity reason or without a technician in techs[j], with their reasons
OwnReasons(techs, j) ==
    QuantityReasons(j) \o (IF techs[j] = {} THEN << <<"skills">> >> ELSE <<>>)

OwnUnscheduled(techs) ==
    LET rejected == SelectSeq(JobList, LAMBDA j : OwnReasons(techs, j) # <<>>)
    IN  [i \in 1..Len(rejected) |-> <<rejected[i], OwnReasons(techs, rejected[i])>>]

\* the technicians each pre-check accepts for each job
SubsetTechsOf == [j \in JobIds |-> SubsetTechs(j)]

IntersectingTechsOf == [j \in JobIds |-> IntersectingTechs(j)]

\* if unscheduled: json.dump(unscheduled, f): the file is written when the
\* pre-check rejected a job and is left as it is when it did not
Written(file, rejected) ==
    IF rejected # <<>> THEN [exists |-> TRUE, content |-> rejected] ELSE file

Min2(a, b) == IF a <= b THEN a ELSE b

Max2(a, b) == IF a >= b THEN a ELSE b

\* int((t_end - t_start).total_seconds() // 3600)
WindowHours == (data.t_end - data.t_start) \div TicksPerHour

(***************************************************************************)
(* Simulated annealing (src/src/optimiser_sa.py).                          *)
(***************************************************************************)
SAFeasibleJobs ==
    SelectSeq(JobList, LAMBDA j : QuantityReasons(j) = <<>> /\ SubsetTechs(j) # {})

\* t_start + timedelta(hours=random.randint(0, window hours - duration))
SAStartTimes(j) ==
    {data.t_start + Hours(k) : k \in 0..(WindowHours - Job(j).duration)}

\* random.sample(available_techs, min(len(available_techs), max(1, len(required_skills))))
SATechnicians(j) ==
    SubsetsOfSize(SubsetTechs(j),
                  Min2(Cardinality(SubsetTechs(j)),
                       Max2(1, Cardinality(Job(j).required_skills))))

\* generate_initial_solution and perturb draw one job's entry from this set
SAGenes ==
    [j \in JobIds |->
        {Assignment(j, s, s + Hours(Job(j).duration), techs) :
            s \in SAStartTimes(j), techs \in SATechnicians(j)}]

\* optimize_schedule: `best` is the initial solution or an accepted candidate;
\* random.randint raises on an empty range and the except clause returns None
SA_optimize_schedule ==
    /\ UNCHANGED function_vars
    /\ pc = "optimize"
    /\ algorithm = "SA"
    /\ IF SAFeasibleJobs = <<>>
       THEN optimized_schedule' = <<>> /\ pc' = "returned"
       ELSE IF \E i \in 1..Len(SAFeasibleJobs) : SAStartTimes(SAFeasibleJobs[i]) = {}
       THEN optimized_schedule' = <<>> /\ pc' = "returned_none"
       ELSE /\ optimized_schedule' \in Products(SAFeasibleJobs, SAGenes)
            /\ pc' = "returned"
    /\ unscheduled_file' = [unscheduled_file EXCEPT
                                ![algorithm] = Written(@, OwnUnscheduled(SubsetTechsOf))]
    /\ UNCHANGED <<data, scheduler_vars, algorithm, unscheduled, feasible, solver_status,
                   reported_unscheduled, runs>>

(***************************************************************************)
(* Genetic algorithm (src/src/optimiser_ga.py).                            *)
(***************************************************************************)
GaWorkdayStart == 8

GaWorkdayEnd == 17

GaWorkdays == {0, 1, 2, 3, 4}

GAFeasibleJobs ==
    SelectSeq(JobList, LAMBDA j : QuantityReasons(j) = <<>> /\ SubsetTechs(j) # {})

is_working_hour(dt) ==
    /\ Weekday(dt) \in GaWorkdays
    /\ Hours(GaWorkdayStart) <= TimeOfDay(dt)
    /\ TimeOfDay(dt) < Hours(GaWorkdayEnd)

\* next_working_hour: one-hour steps, back to the start of the workday when
\* a step lands before it, on to the next day when it lands at or after
\* the end
RECURSIVE next_working_hour(_)
next_working_hour(dt) ==
    IF is_working_hour(dt) THEN dt
    ELSE LET stepped == dt + Hours(1)
         IN  next_working_hour(
                 IF TimeOfDay(stepped) < Hours(GaWorkdayStart)
                 THEN Combine(DateOf(stepped), GaWorkdayStart)
                 ELSE IF TimeOfDay(stepped) >= Hours(GaWorkdayEnd)
                      THEN Combine(DateOf(stepped) + 1, GaWorkdayStart)
                      ELSE stepped)

\* the start times at which the while loop of generate_individual and of
\* mutate exits: a working instant whose end is in the horizon and follows a
\* working instant
GAStartTimes(j) ==
    {s \in data.t_start..data.t_end :
        /\ is_working_hour(s)
        /\ is_working_hour(s + Hours(Job(j).duration) - 1)
        /\ s + Hours(Job(j).duration) <= data.t_end}

\* random.sample(available_techs, min(len(available_techs), 2))
GATechnicians(j) ==
    SubsetsOfSize(SubsetTechs(j), Min2(Cardinality(SubsetTechs(j)), 2))

GAGenes ==
    [j \in JobIds |->
        {Assignment(j, s, s + Hours(Job(j).duration), techs) :
            s \in GAStartTimes(j), techs \in GATechnicians(j)}]

\* optimize_schedule: generate_individual does not return while a job has no
\* start time that ends its loop; crossover raises ValueError
\* (random.randint(1, 0)) on one-job individuals unless every draw skips it
GA_optimize_schedule ==
    /\ UNCHANGED function_vars
    /\ pc = "optimize"
    /\ algorithm = "GA"
    /\ IF GAFeasibleJobs = <<>>
       THEN optimized_schedule' = <<>> /\ pc' = "returned"
       ELSE /\ \A i \in 1..Len(GAFeasibleJobs) : GAStartTimes(GAFeasibleJobs[i]) # {}
            /\ \/ /\ Len(GAFeasibleJobs) = 1
                  /\ optimized_schedule' = <<>>
                  /\ pc' = "failed"
               \/ /\ optimized_schedule' \in Products(GAFeasibleJobs, GAGenes)
                  /\ pc' = "returned"
    /\ unscheduled_file' = [unscheduled_file EXCEPT
                                ![algorithm] = Written(@, OwnUnscheduled(SubsetTechsOf))]
    /\ UNCHANGED <<data, scheduler_vars, algorithm, unscheduled, feasible, solver_status,
                   reported_unscheduled, runs>>

(***************************************************************************)
(* The constraint model (src/src/optimiser_milp.py and, without the        *)
(* pre-check, src/src/optimiser_ortools.py).  Solver values are offsets    *)
(* from t_start (datetime_to_minutes, minutes_to_datetime).                *)
(***************************************************************************)
CpWorkdayStart == 8

CpWorkdayEnd == 17

CpWorkdays == {0, 1, 2, 3, 4}

datetime_to_minutes(dt, t_start) == dt - t_start

minutes_to_datetime(minutes) == data.t_start + minutes

total_minutes == datetime_to_minutes(data.t_end, data.t_start)

\* the while loop of generate_working_windows: `current` starts at t_start
\* and advances by one day while current < t_end
RECURSIVE WorkingWindowsFrom(_, _, _)
WorkingWindowsFrom(current, t_start, t_end) ==
    IF ~(current < t_end) THEN <<>>
    ELSE LET day_start == Max2(Combine(DateOf(current), CpWorkdayStart), t_start)
             day_end == Min2(Combine(DateOf(current), CpWorkdayEnd), t_end)
         IN  (IF Weekday(current) \in CpWorkdays /\ day_start < day_end
              THEN <<<<datetime_to_minutes(day_start, t_start),
                       datetime_to_minutes(day_end, t_start)>>>>
              ELSE <<>>)
             \o WorkingWindowsFrom(current + DayTicks, t_start, t_end)

generate_working_windows(t_start, t_end) == WorkingWindowsFrom(t_start, t_start, t_end)

\* start values with end - start == duration and the job inside one window
CpStartValues(j) ==
    LET working_windows == generate_working_windows(data.t_start, data.t_end)
    IN  {start \in 0..total_minutes :
            /\ start + Duration(j) <= total_minutes
            /\ \E w \in 1..Len(working_windows) :
                   /\ start >= working_windows[w][1]
                   /\ start + Duration(j) <= working_windows[w][2]}

CpGenes(techChoices) ==
    [j \in JobIds |->
        {Assignment(j, minutes_to_datetime(start),
                    minutes_to_datetime(start + Duration(j)), techs) :
            start \in CpStartValues(j), techs \in techChoices[j]}]

IntervalsOverlap(a, b) ==
    /\ a.scheduled_start_time < b.scheduled_end_time
    /\ b.scheduled_start_time < a.scheduled_end_time

\* AddNoOverlap over the jobs of each equipment of the bundle
CpEquipmentNoOverlap(sol) ==
    \A i, k \in 1..Len(sol) :
        (/\ i < k
         /\ Job(sol[i].job_id).equipment_id = Job(sol[k].job_id).equipment_id
         /\ Job(sol[i].job_id).equipment_id \in EquipmentIds)
            => ~IntervalsOverlap(sol[i], sol[k])

\* AddNoOverlap over the optional intervals of each technician
CpTechnicianNoOverlap(sol) ==
    \A i, k \in 1..Len(sol) :
        (i < k /\ sol[i].assigned_technicians \cap sol[k].assigned_technicians # {})
            => ~IntervalsOverlap(sol[i], sol[k])

ToolDemand(j, tool) ==
    LET reqs == SelectSeq(Job(j).required_tools, LAMBDA r : r.tool_id = tool)
    IN  SeqSum([i \in 1..Len(reqs) |-> reqs[i].quantity])

\* AddCumulative: one interval per (job, tool entry), capacity the tool's quantity
CpToolCumulative(sol) ==
    \A tool \in ToolIds : \A x \in data.t_start..data.t_end :
        SeqSum([i \in 1..Len(sol) |->
                   IF sol[i].scheduled_start_time <= x /\ x < sol[i].scheduled_end_time
                   THEN ToolDemand(sol[i].job_id, tool) ELSE 0]) <= data.tools[tool]

\* model.Add(material_usage <= material_capacity), a constant of the job list
CpMaterials(jobs) ==
    \A mat \in MaterialIds :
        SeqSum([i \in 1..Len(jobs) |-> MaterialAllocatedBy(jobs[i], mat)])
            <= data.materials[mat]

\* start of a job >= end of each predecessor that has variables
CpPrecedence(sol) ==
    \A i, k \in 1..Len(sol) :
        sol[k].job_id \in Job(sol[i].job_id).precedence
            => sol[i].scheduled_start_time >= sol[k].scheduled_end_time

Makespan(sol) ==
    SetMax({datetime_to_minutes(sol[i].scheduled_end_time, data.t_start) : i \in 1..Len(sol)})

CpSolutions(jobs, techChoices) ==
    IF ~CpMaterials(jobs) THEN {}
    ELSE {sol \in Products(jobs, CpGenes(techChoices)) :
             /\ CpEquipmentNoOverlap(sol)
             /\ CpTechnicianNoOverlap(sol)
             /\ CpToolCumulative(sol)
             /\ CpPrecedence(sol)}

\* model.Minimize(makespan): the solutions the solver reports as OPTIMAL
CpOptimal(solutions) ==
    {sol \in solutions : \A other \in solutions : Makespan(sol) <= Makespan(other)}

\* optimiser_milp.py: the skill pre-check keeps a job if some technician
\* shares a skill with it
MILPFilteredJobs ==
    SelectSeq(JobList,
              LAMBDA j : QuantityReasons(j) = <<>> /\ IntersectingTechs(j) # {})

\* model.Add(sum(tech_count) >= 1)
MILPTechnicians == [j \in JobIds |-> SUBSET IntersectingTechs(j) \ {{}}]

\* the statuses solver.Solve can end with under max_time_in_seconds = 300:
\* a proof of optimality or of infeasibility, or the time limit, reached
\* with a solution (FEASIBLE) or without one (UNKNOWN)
SolverStatuses(solutions) ==
    IF solutions = {} THEN {"INFEASIBLE", "UNKNOWN"}
    ELSE {"OPTIMAL", "FEASIBLE", "UNKNOWN"}

\* the solutions solver.Value can report under a status
SolverValues(solutions, st) ==
    IF st = "OPTIMAL" THEN CpOptimal(solutions)
    ELSE IF st = "FEASIBLE" THEN solutions
    ELSE {}

\* [] without a solve when the pre-check leaves no job; [] for every status
\* other than OPTIMAL and FEASIBLE
MILP_optimize_schedule ==
    /\ UNCHANGED function_vars
    /\ pc = "optimize"
    /\ algorithm = "MILP"
    /\ pc' = "returned"
    /\ IF MILPFilteredJobs = <<>>
       THEN optimized_schedule' = <<>> /\ solver_status' = solver_status
       ELSE LET solutions == CpSolutions(MILPFilteredJobs, MILPTechnicians)
            IN  \E st \in SolverStatuses(solutions) :
                    /\ solver_status' = st
                    /\ IF st \in {"OPTIMAL", "FEASIBLE"}
                       THEN optimized_schedule' \in SolverValues(solutions, st)
                       ELSE optimized_schedule' = <<>>
    /\ unscheduled_file' = [unscheduled_file EXCEPT
                                ![algorithm] = Written(@, OwnUnscheduled(IntersectingTechsOf))]
    /\ UNCHANGED <<data, scheduler_vars, algorithm, unscheduled, feasible,
                   reported_unscheduled, runs>>

\* optimiser_ortools.py: sum(assigned) == len(job['required_skills'])
ORToolsTechnicians ==
    [j \in JobIds |->
        SubsetsOfSize(IntersectingTechs(j), Cardinality(Job(j).required_skills))]

\* no pre-check; None for every status other than OPTIMAL and FEASIBLE
ORTools_optimize_schedule ==
    /\ UNCHANGED function_vars
    /\ pc = "optimize"
    /\ algorithm = "ORTOOLS"
    /\ LET solutions == CpSolutions(JobList, ORToolsTechnicians)
       IN  \E st \in SolverStatuses(solutions) :
               /\ solver_status' = st
               /\ IF st \in {"OPTIMAL", "FEASIBLE"}
                  THEN /\ optimized_schedule' \in SolverValues(solutions, st)
                       /\ pc' = "returned"
                  ELSE /\ optimized_schedule' = <<>>
                       /\ pc' = "returned_none"
    /\ UNCHANGED <<data, scheduler_vars, algorithm, unscheduled, feasible,
                   unscheduled_file, reported_unscheduled, runs>>

Next ==
    \/ GroupingRaises
    \/ BeginGroup
    \/ CommitJob
    \/ AdvanceTime
    \/ RunOverflows
    \/ EndGroup
    \/ Review
    \/ Confirm
    \/ SA_optimize_schedule
    \/ GA_optimize_schedule
    \/ MILP_optimize_schedule
    \/ ORTools_optimize_schedule

Spec == Init /\ [][Next]_vars

(***************************************************************************)
(* The calendar functions on their own: each is applied to an instant (and *)
(* a duration, or the end of a horizon) drawn from a bounded set, on the   *)
(* calendar that run_scheduler constructs and on the constants of          *)
(* optimiser_ga and optimiser_milp.                                        *)
(***************************************************************************)
Instants == 0..(CalendarDays * DayTicks - 1)

CalendarInit ==
    /\ algorithm = "GREEDY"
    /\ data = Bundle(<<>>, [E1 |-> 1, E2 |-> 1])
    /\ workdays = SchedWorkdays
    /\ current_time = data.t_start
    /\ status = <<>>
    /\ scheduled_start_time = <<>>
    /\ scheduled_end_time = <<>>
    /\ assigned_technicians = <<>>
    /\ equipment_schedule = [eq \in EquipmentIds |-> <<>>]
    /\ tech_assignments = [t \in TechIds |-> <<>>]
    /\ tool_reservations = [tool \in ToolIds |-> <<>>]
    /\ quantity_used = [mat \in MaterialIds |-> 0]
    /\ schedule = <<>>
    /\ unscheduled_jobs = <<>>
    /\ pc = "calendar"
    /\ priority = 1
    /\ group_unscheduled = <<>>
    /\ unscheduled = <<>>
    /\ feasible = <<>>
    /\ optimized_schedule = <<>>
    /\ solver_status = "NOT_RUN"
    /\ instant \in Instants
    /\ \/ duration_arg \in 0..MaxDuration /\ horizon_end = instant
       \/ duration_arg = 0 /\ horizon_end \in (instant + 1)..(CalendarDays * DayTicks)
    /\ applied = "none"
    /\ result = 0
    /\ windows = <<>>
    /\ candidate = <<>>
    /\ scored = "none"
    /\ ga_fitness = <<>>
    /\ sa_score = <<>>
    /\ sa_current = <<>>
    /\ sa_best = <<>>
    /\ current_score = 0
    /\ best_score = 0
    /\ iteration = 0
    /\ least_score = 0
    /\ returned = <<>>
    /\ heap = <<>>
    /\ population = <<>>
    /\ new_population = <<>>
    /\ children = <<>>
    /\ parents = <<>>
    /\ generation = 0
    /\ best_individual = <<>>
    /\ least_cost = 0
    /\ unscheduled_file = [a \in Algorithms |-> NoFile]
    /\ reported_unscheduled = <<>>
    /\ runs = 1

\* Scheduler.get_next_working_time(instant)
ApplyGetNextWorkingTime ==
    /\ pc = "calendar"
    /\ applied = "none"
    /\ duration_arg = 0
    /\ horizon_end = instant
    /\ applied' = "get_next_working_time"
    /\ result' = get_next_working_time(instant)
    /\ UNCHANGED <<data, pc, scheduler_vars, orchestrator_vars, instant, duration_arg,
                   horizon_end, windows, scoring_vars, annealing_vars, genetic_vars>>

\* GeneticAlgorithm.next_working_hour(instant)
ApplyNextWorkingHour ==
    /\ pc = "calendar"
    /\ applied = "none"
    /\ duration_arg = 0
    /\ horizon_end = instant
    /\ applied' = "next_working_hour"
    /\ result' = next_working_hour(instant)
    /\ UNCHANGED <<data, pc, scheduler_vars, orchestrator_vars, instant, duration_arg,
                   horizon_end, windows, scoring_vars, annealing_vars, genetic_vars>>

\* Scheduler.calculate_job_end_time(instant, timedelta(hours=duration_arg)),
\* called with a start that get_next_working_time returned
ApplyCalculateJobEndTime ==
    /\ pc = "calendar"
    /\ applied = "none"
    /\ get_next_working_time(instant) = instant
    /\ horizon_end = instant
    /\ applied' = "calculate_job_end_time"
    /\ result' = calculate_job_end_time(instant, Hours(duration_arg))
    /\ UNCHANGED <<data, pc, scheduler_vars, orchestrator_vars, instant, duration_arg,
                   horizon_end, windows, scoring_vars, annealing_vars, genetic_vars>>

\* generate_working_windows(instant, horizon_end)
ApplyGenerateWorkingWindows ==
    /\ pc = "calendar"
    /\ applied = "none"
    /\ duration_arg = 0
    /\ applied' = "generate_working_windows"
    /\ windows' = generate_working_windows(instant, horizon_end)
    /\ UNCHANGED <<data, pc, scheduler_vars, orchestrator_vars, instant, duration_arg,
                   result, horizon_end, scoring_vars, annealing_vars,
                   genetic_vars>>

CalendarNext ==
    \/ ApplyGetNextWorkingTime
    \/ ApplyNextWorkingHour
    \/ ApplyCalculateJobEndTime
    \/ ApplyGenerateWorkingWindows

CalendarSpec == CalendarInit /\ [][CalendarNext]_vars

(***************************************************************************)
(* The scoring functions of the metaheuristics: optimiser_sa.evaluate and  *)
(* GeneticAlgorithm.fitness.  A candidate is a list with one entry per     *)
(* job of the optimiser's job list, in the order of that list.  Scores in  *)
(* hours are kept in ticks: every score below is TicksPerHour times the    *)
(* value the code computes.                                                *)
(***************************************************************************)
RECURSIVE SumOver(_, _)
SumOver(S, f) ==
    IF S = {} THEN 0
    ELSE LET x == CHOOSE y \in S : TRUE IN f[x] + SumOver(S \ {x}, f)

RECURSIVE Concat(_)
Concat(ss) == IF ss = <<>> THEN <<>> ELSE Head(ss) \o Concat(Tail(ss))

LexLess(a, b) == a[1] < b[1] \/ (a[1] = b[1] /\ a[2] < b[2])

\* sorted(usage) and times.sort(): tuples in lexicographic order
SortedTuples(s) ==
    IF s = <<>> THEN <<>>
    ELSE LET p == CHOOSE q \in Permutations(1..Len(s)) :
                      \A i, k \in 1..Len(s) : i < k => ~LexLess(s[q[k]], s[q[i]])
         IN  [i \in 1..Len(s) |-> s[p[i]]]

\* usage.sort(key=lambda x: x[0]): by start, equal starts in list order
SortedByStart(s) ==
    IF s = <<>> THEN <<>>
    ELSE LET p == CHOOSE q \in Permutations(1..Len(s)) :
                      \A i, k \in 1..Len(s) :
                          i < k => \/ s[q[i]][1] < s[q[k]][1]
                                   \/ s[q[i]][1] = s[q[k]][1] /\ q[i] < q[k]
         IN  [i \in 1..Len(s) |-> s[p[i]]]

\* the comparisons of each interval with its successor in a sorted list
AdjacentOverlaps(s) == Cardinality({i \in 1..(Len(s) - 1) : s[i][2] > s[i + 1][1]})

\* the (start, end) tuples of the entries at the positions `kept`, in list order
SpansWhere(sched, kept) ==
    LET idx == SelectSeq([i \in 1..Len(sched) |-> i], LAMBDA i : i \in kept)
    IN  [k \in 1..Len(idx) |->
            <<sched[idx[k]].scheduled_start_time, sched[idx[k]].scheduled_end_time>>]

EndTimes(sched) == {sched[i].scheduled_end_time : i \in 1..Len(sched)}

StartTimes(sched) == {sched[i].scheduled_start_time : i \in 1..Len(sched)}

OutOfWindow(entry) ==
    entry.scheduled_start_time < data.t_start \/ entry.scheduled_end_time > data.t_end

\* evaluate: `if js < t_start or je > t_end: penalty += 1000`
SAWindowPenalty(sched) ==
    1000 * Cardinality({i \in 1..Len(sched) : OutOfWindow(sched[i])})

\* evaluate: equip_usage and tech_usage, sorted, each interval against the next
SAOverlapPenalty(sched) ==
    LET equip_ids == {Job(sched[i].job_id).equipment_id : i \in 1..Len(sched)}
        tech_ids == UNION {sched[i].assigned_technicians : i \in 1..Len(sched)}
        equip_usage == [eq \in equip_ids |->
            AdjacentOverlaps(SortedTuples(SpansWhere(sched,
                {i \in 1..Len(sched) : Job(sched[i].job_id).equipment_id = eq})))]
        tech_usage == [t \in tech_ids |->
            AdjacentOverlaps(SortedTuples(SpansWhere(sched,
                {i \in 1..Len(sched) : t \in sched[i].assigned_technicians})))]
    IN  1000 * (SumOver(equip_ids, equip_usage) + SumOver(tech_ids, tech_usage))

\* evaluate: (s, q) and (e, -q) for every entry of `requests`, sorted
UsageEvents(sched, requests) ==
    SortedTuples(Concat([i \in 1..Len(sched) |->
        LET reqs == requests[i]
        IN  Concat([k \in 1..Len(reqs) |->
                <<<<sched[i].scheduled_start_time, reqs[k].quantity>>,
                  <<sched[i].scheduled_end_time, 0 - reqs[k].quantity>>>>])]))

\* evaluate: the running sum `current` after each event, compared with `cap`
OverusePenalty(events, cap) ==
    LET current(k) == SeqSum([i \in 1..k |-> events[i][2]])
    IN  1000 * SeqSum([k \in 1..Len(events) |->
                          IF current(k) > cap THEN current(k) - cap ELSE 0])

\* the entries of each job's required_tools that name `tool`
ToolRequests(sched, tool) ==
    [i \in 1..Len(sched) |->
        SelectSeq(Job(sched[i].job_id).required_tools, LAMBDA r : r.tool_id = tool)]

MaterialRequests(sched, mat) ==
    [i \in 1..Len(sched) |->
        SelectSeq(Job(sched[i].job_id).required_materials,
                  LAMBDA r : r.material_id = mat)]

\* evaluate: tool_caps[list(tool_usage.keys())[0]], the first tool of the input
FirstToolCap == data.tools[data.tool_ids[1]]

\* evaluate: mat_caps[list(mat_usage.keys())[0]]
FirstMaterialCap == data.materials[data.material_ids[1]]

SAToolPenalty(sched, tool) ==
    OverusePenalty(UsageEvents(sched, ToolRequests(sched, tool)), FirstToolCap)

SAMaterialPenalty(sched, mat) ==
    OverusePenalty(UsageEvents(sched, MaterialRequests(sched, mat)), FirstMaterialCap)

\* optimiser_sa.evaluate (lower is better)
evaluate(sched) ==
    TicksPerHour * (SAWindowPenalty(sched) + SAOverlapPenalty(sched)
                    + SumOver(ToolIds, [tool \in ToolIds |-> SAToolPenalty(sched, tool)])
                    + SumOver(MaterialIds,
                              [mat \in MaterialIds |-> SAMaterialPenalty(sched, mat)]))
    + (SetMax(EndTimes(sched)) - data.t_start)

\* fitness: one violation per hour step of the job outside working hours
GAHourViolations(entry) ==
    Cardinality({k \in 0..(entry.scheduled_end_time - entry.scheduled_start_time) :
                    /\ entry.scheduled_start_time + Hours(k) < entry.scheduled_end_time
                    /\ ~is_working_hour(entry.scheduled_start_time + Hours(k))})

\* fitness: total_violation
total_violation(individual) ==
    LET equipment_usage == [eq \in EquipmentIds |->
            AdjacentOverlaps(SortedByStart(SpansWhere(individual,
                {i \in 1..Len(individual) : Job(individual[i].job_id).equipment_id = eq})))]
        technician_usage == [t \in TechIds |->
            AdjacentOverlaps(SortedByStart(SpansWhere(individual,
                {i \in 1..Len(individual) : t \in individual[i].assigned_technicians})))]
        tool_usage == [tool \in ToolIds |->
            SeqSum([i \in 1..Len(individual) |-> ToolDemand(individual[i].job_id, tool)])]
        material_usage == [mat \in MaterialIds |->
            SeqSum([i \in 1..Len(individual) |-> MaterialAllocatedBy(individual[i].job_id, mat)])]
    IN  1000 * Cardinality({i \in 1..Len(individual) : OutOfWindow(individual[i])})
        + SeqSum([i \in 1..Len(individual) |-> GAHourViolations(individual[i])])
        + SumOver(EquipmentIds, equipment_usage)
        + SumOver(TechIds, technician_usage)
        + SumOver(ToolIds, [tool \in ToolIds |->
              IF tool_usage[tool] > data.tools[tool]
              THEN tool_usage[tool] - data.tools[tool] ELSE 0])
        + SumOver(MaterialIds, [mat \in MaterialIds |->
              IF material_usage[mat] > data.materials[mat]
              THEN material_usage[mat] - data.materials[mat] ELSE 0])

\* fitness returns 1 / (makespan hours + total_violation * 100): this is the
\* denominator, so that a greater fitness is a smaller FitnessCost
FitnessCost(individual) ==
    (SetMax(EndTimes(individual)) - SetMin(StartTimes(individual)))
    + TicksPerHour * total_violation(individual) * 100

(***************************************************************************)
(* The scoring functions on their own: both are applied to two candidate   *)
(* schedules for the jobs of one bundle.                                   *)
(***************************************************************************)
ScoringTools == [drill |-> 1, saw |-> 2]

SawReq(q) == [tool_id |-> "saw", quantity |-> q]

ScoringJobs ==
    {OptimizerJob({"s1"}, 2, <<ToolReq(1)>>, <<>>, "E1"),
     OptimizerJob({"s1"}, 2, <<SawReq(1)>>, <<>>, "E1"),
     OptimizerJob({"s1"}, 2, <<SawReq(1)>>, <<>>, "E2"),
     OptimizerJob({"s1"}, 2, <<>>, <<MaterialReq(1)>>, "E2")}

ScoringBundles ==
    UNION {{[jobs |-> jobs, equipment |-> [E1 |-> 1, E2 |-> 1],
             technicians |-> Technicians,
             tools |-> ScoringTools, tool_ids |-> <<"drill", "saw">>,
             materials |-> Materials, material_ids |-> <<"steel">>,
             t_start |-> Combine(0, SchedWorkdayStart),
             t_end |-> Combine(HorizonDays, SchedWorkdayEnd)]
            : jobs \in SeqsOf(ScoringJobs, n)} : n \in 1..MaxJobs}

\* start times of a candidate: the first three hours of the horizon (jobs
\* that overlap, touch or are apart) and its last hour (a job that ends
\* outside the horizon and outside working hours)
CandidateStarts ==
    {data.t_start, data.t_start + Hours(1), data.t_start + Hours(2),
     data.t_end - Hours(1)}

CandidateGenes ==
    [j \in JobIds |->
        {Assignment(j, s, s + Hours(Job(j).duration), techs) :
            s \in CandidateStarts, techs \in {{1}, {1, 2}}}]

Candidates == Products(JobList, CandidateGenes)

ScoringInit ==
    /\ algorithm = "GA"
    /\ data \in ScoringBundles
    /\ workdays = SchedWorkdays
    /\ current_time = data.t_start
    /\ status = [j \in JobIds |-> "unscheduled"]
    /\ scheduled_start_time = [j \in JobIds |-> -1]
    /\ scheduled_end_time = [j \in JobIds |-> -1]
    /\ assigned_technicians = [j \in JobIds |-> {}]
    /\ equipment_schedule = [eq \in EquipmentIds |-> <<>>]
    /\ tech_assignments = [t \in TechIds |-> <<>>]
    /\ tool_reservations = [tool \in ToolIds |-> <<>>]
    /\ quantity_used = [mat \in MaterialIds |-> 0]
    /\ schedule = <<>>
    /\ unscheduled_jobs = <<>>
    /\ pc = "scoring"
    /\ priority = 1
    /\ group_unscheduled = <<>>
    /\ unscheduled = <<>>
    /\ feasible = <<>>
    /\ optimized_schedule = <<>>
    /\ solver_status = "NOT_RUN"
    /\ instant = 0
    /\ duration_arg = 0
    /\ applied = "none"
    /\ result = 0
    /\ horizon_end = 0
    /\ windows = <<>>
    /\ candidate \in Candidates \X Candidates
    /\ scored = "none"
    /\ ga_fitness = <<>>
    /\ sa_score = <<>>
    /\ sa_current = <<>>
    /\ sa_best = <<>>
    /\ current_score = 0
    /\ best_score = 0
    /\ iteration = 0
    /\ least_score = 0
    /\ returned = <<>>
    /\ heap = <<>>
    /\ population = <<>>
    /\ new_population = <<>>
    /\ children = <<>>
    /\ parents = <<>>
    /\ generation = 0
    /\ best_individual = <<>>
    /\ least_cost = 0
    /\ unscheduled_file = [a \in Algorithms |-> NoFile]
    /\ reported_unscheduled = <<>>
    /\ runs = 1

\* GeneticAlgorithm.fitness(candidate[1]), fitness(candidate[2])
ApplyFitness ==
    /\ pc = "scoring"
    /\ scored = "none"
    /\ scored' = "fitness"
    /\ ga_fitness' = <<FitnessCost(candidate[1]), FitnessCost(candidate[2])>>
    /\ UNCHANGED <<data, pc, scheduler_vars, orchestrator_vars, calendar_vars,
                   annealing_vars, genetic_vars, candidate, sa_score>>

\* evaluate(candidate[1], ...), evaluate(candidate[2], ...)
ApplyEvaluate ==
    /\ pc = "scoring"
    /\ scored = "fitness"
    /\ scored' = "both"
    /\ sa_score' = <<evaluate(candidate[1]), evaluate(candidate[2])>>
    /\ UNCHANGED <<data, pc, scheduler_vars, orchestrator_vars, calendar_vars,
                   annealing_vars, genetic_vars, candidate, ga_fitness>>

ScoringNext ==
    \/ ApplyFitness
    \/ ApplyEvaluate

ScoringSpec == ScoringInit /\ [][ScoringNext]_vars

(***************************************************************************)
(* The annealing loop of optimiser_sa.optimize_schedule.  The cooling      *)
(* schedule fixes the number of iterations (50 per temperature from 100    *)
(* down to 0.01 by factors of 0.95); the model runs MaxIterations of them. *)
(***************************************************************************)
MaxIterations == 3

\* horizons of a few hours within one day, so that the loop's choices are few
AnnealingJobs ==
    {OptimizerJob({"s1"}, 2, <<>>, <<>>, "E1"),
     OptimizerJob({"s1"}, 2, <<>>, <<>>, "E2"),
     OptimizerJob({"s1"}, 2, <<ToolReq(1)>>, <<>>, "E2")}

AnnealingBundles ==
    UNION {{[jobs |-> jobs, equipment |-> [E1 |-> 1, E2 |-> 1],
             technicians |-> Technicians,
             tools |-> Tools, tool_ids |-> <<"drill">>,
             materials |-> Materials, material_ids |-> <<"steel">>,
             t_start |-> Combine(0, SchedWorkdayEnd - 4),
             t_end |-> Combine(0, SchedWorkdayEnd)]
            : jobs \in SeqsOf(AnnealingJobs, n)} : n \in 1..MaxJobs}

AnnealingInit ==
    /\ algorithm = "SA"
    /\ data \in AnnealingBundles
    /\ workdays = SchedWorkdays
    /\ current_time = data.t_start
    /\ status = [j \in JobIds |-> "unscheduled"]
    /\ scheduled_start_time = [j \in JobIds |-> -1]
    /\ scheduled_end_time = [j \in JobIds |-> -1]
    /\ assigned_technicians = [j \in JobIds |-> {}]
    /\ equipment_schedule = [eq \in EquipmentIds |-> <<>>]
    /\ tech_assignments = [t \in TechIds |-> <<>>]
    /\ tool_reservations = [tool \in ToolIds |-> <<>>]
    /\ quantity_used = [mat \in MaterialIds |-> 0]
    /\ schedule = <<>>
    /\ unscheduled_jobs = <<>>
    /\ pc = "generate"
    /\ priority = 1
    /\ group_unscheduled = <<>>
    /\ unscheduled = <<>>
    /\ feasible = <<>>
    /\ optimized_schedule = <<>>
    /\ solver_status = "NOT_RUN"
    /\ instant = 0
    /\ duration_arg = 0
    /\ applied = "none"
    /\ result = 0
    /\ horizon_end = 0
    /\ windows = <<>>
    /\ candidate = <<>>
    /\ scored = "none"
    /\ ga_fitness = <<>>
    /\ sa_score = <<>>
    /\ sa_current = <<>>
    /\ sa_best = <<>>
    /\ current_score = 0
    /\ best_score = 0
    /\ iteration = 0
    /\ least_score = 0
    /\ returned = <<>>
    /\ heap = <<>>
    /\ population = <<>>
    /\ new_population = <<>>
    /\ children = <<>>
    /\ parents = <<>>
    /\ generation = 0
    /\ best_individual = <<>>
    /\ least_cost = 0
    /\ unscheduled_file = [a \in Algorithms |-> NoFile]
    /\ reported_unscheduled = <<>>
    /\ runs = 1

\* current = generate_initial_solution(...); best = current; both scores
GenerateInitialSolution ==
    /\ pc = "generate"
    /\ pc' = "anneal"
    /\ sa_current' \in Products(SAFeasibleJobs, SAGenes)
    /\ sa_best' = sa_current'
    /\ current_score' = evaluate(sa_current')
    /\ best_score' = current_score'
    /\ least_score' = current_score'
    /\ UNCHANGED <<data, scheduler_vars, orchestrator_vars, calendar_vars, scoring_vars,
                   genetic_vars, iteration, returned>>

\* perturb: a copy of the schedule with the entry of one job drawn again
perturb(sched) ==
    UNION {{[sched EXCEPT ![idx] = gene] : gene \in SAGenes[sched[idx].job_id]}
           : idx \in 1..Len(sched)}

BestFollowsCurrent(old_best, old_score, cand, cand_score) == cand

\* `if current_score < best_score: best = current`
BestAfterAccept(old_best, old_score, cand, cand_score) ==
    IF cand_score < old_score THEN cand ELSE old_best

\* one iteration of the inner loop: a candidate is accepted when it scores
\* less than the current solution, when it scores the same (pow(2.718, 0) is
\* 1), and otherwise when random.random() falls below pow(2.718, -d / T)
AnnealStep ==
    /\ pc = "anneal"
    /\ iteration < MaxIterations
    /\ iteration' = iteration + 1
    /\ \E cand \in perturb(sa_current) :
           LET cand_score == evaluate(cand)
           IN  /\ least_score' = Min2(least_score, cand_score)
               /\ \/ /\ sa_current' = cand
                     /\ current_score' = cand_score
                     /\ sa_best' = BestAfterAccept(sa_best, best_score, cand, cand_score)
                     /\ best_score' = Min2(best_score, cand_score)
                  \/ /\ cand_score > current_score
                     /\ UNCHANGED <<sa_current, current_score, sa_best, best_score>>
    /\ UNCHANGED <<data, pc, scheduler_vars, orchestrator_vars, calendar_vars, scoring_vars,
                   genetic_vars, returned>>

\* the loop has ended: return best
AnnealReturn ==
    /\ pc = "anneal"
    /\ iteration = MaxIterations
    /\ pc' = "returned"
    /\ returned' = sa_best
    /\ UNCHANGED <<data, scheduler_vars, orchestrator_vars, calendar_vars, scoring_vars,
                   genetic_vars, sa_current, sa_best, current_score, best_score, iteration,
                   least_score>>

AnnealingNext ==
    \/ GenerateInitialSolution
    \/ AnnealStep
    \/ AnnealReturn

AnnealingSpec == AnnealingInit /\ [][AnnealingNext]_vars

(***************************************************************************)
(* The generation loop of GeneticAlgorithm.optimize.  An individual is a   *)
(* list of dictionaries; crossover and mutate pass the dictionaries on by  *)
(* reference, so the model keeps them in a heap and an individual is the   *)
(* list of the identities of its entries.  POPULATION_SIZE, GENERATIONS    *)
(* and tournament_size (100, 100, 5) are scaled down to the bounds below.  *)
(***************************************************************************)
PopulationSize == 2

Generations == 2

TournamentSize == 1

\* the while loop of generate_individual and of mutate: step to the next
\* working hour until the job ends in working hours and inside the horizon,
\* starting again from t_start when the start passes t_end
RECURSIVE SettledStart(_, _)
SettledStart(start, j) ==
    IF is_working_hour(start + Duration(j) - 1) /\ start + Duration(j) <= data.t_end
    THEN start
    ELSE LET stepped == next_working_hour(start + Hours(1))
         IN  SettledStart(IF stepped >= data.t_end
                          THEN next_working_hour(data.t_start) ELSE stepped, j)

\* generate_individual: random.randint(0, minutes of the horizon), drawn here
\* from the first two hours
GenerateOffsets == {0, Hours(1)}

GeneratedStarts(j) ==
    {SettledStart(next_working_hour(data.t_start + offset), j) : offset \in GenerateOffsets}

\* mutate: random.randint(-12, 12) hours, drawn here from two values
MutationShifts == {1, 12}

MutatedStarts(j, start) ==
    {SettledStart(next_working_hour(start + Hours(shift)), j) : shift \in MutationShifts}

\* a dictionary's content: job i of the list, its start and its technicians
Entry(start, techs) == [start |-> start, techs |-> techs]

GAJobs == Len(GAFeasibleJobs)

\* the entries of an individual as assignments
Deref(h, individual) ==
    [i \in 1..Len(individual) |->
        Assignment(GAFeasibleJobs[i], h[individual[i]].start,
                   h[individual[i]].start + Duration(GAFeasibleJobs[i]),
                   h[individual[i]].techs)]

CostOf(h, individual) == FitnessCost(Deref(h, individual))

\* max(..., key=self.fitness): the first of the fittest, in list order
FirstFittest(h, individuals) ==
    LET fittest == {i \in 1..Len(individuals) :
                       \A k \in 1..Len(individuals) :
                           CostOf(h, individuals[i]) <= CostOf(h, individuals[k])}
    IN  individuals[SetMin(fittest)]

LeastCost(h, individuals) ==
    SetMin({CostOf(h, individuals[i]) : i \in 1..Len(individuals)})

GeneticJobs ==
    {OptimizerJob({"s1"}, 2, <<>>, <<>>, "E1"),
     OptimizerJob({"s1"}, 2, <<>>, <<>>, "E2")}

GeneticBundles ==
    UNION {{[jobs |-> jobs, equipment |-> [E1 |-> 1, E2 |-> 1],
             technicians |-> Technicians, tools |-> Tools, materials |-> Materials,
             t_start |-> Combine(0, SchedWorkdayEnd - 4),
             t_end |-> Combine(0, SchedWorkdayEnd)]
            : jobs \in SeqsOf(GeneticJobs, n)} : n \in 1..MaxJobs}

GeneticInit ==
    /\ algorithm = "GA"
    /\ data \in GeneticBundles
    /\ workdays = SchedWorkdays
    /\ current_time = data.t_start
    /\ status = [j \in JobIds |-> "unscheduled"]
    /\ scheduled_start_time = [j \in JobIds |-> -1]
    /\ scheduled_end_time = [j \in JobIds |-> -1]
    /\ assigned_technicians = [j \in JobIds |-> {}]
    /\ equipment_schedule = [eq \in EquipmentIds |-> <<>>]
    /\ tech_assignments = [t \in TechIds |-> <<>>]
    /\ tool_reservations = [tool \in ToolIds |-> <<>>]
    /\ quantity_used = [mat \in MaterialIds |-> 0]
    /\ schedule = <<>>
    /\ unscheduled_jobs = <<>>
    /\ pc = "populate"
    /\ priority = 1
    /\ group_unscheduled = <<>>
    /\ unscheduled = <<>>
    /\ feasible = <<>>
    /\ optimized_schedule = <<>>
    /\ solver_status = "NOT_RUN"
    /\ instant = 0
    /\ duration_arg = 0
    /\ applied = "none"
    /\ result = 0
    /\ horizon_end = 0
    /\ windows = <<>>
    /\ candidate = <<>>
    /\ scored = "none"
    /\ ga_fitness = <<>>
    /\ sa_score = <<>>
    /\ sa_current = <<>>
    /\ sa_best = <<>>
    /\ current_score = 0
    /\ best_score = 0
    /\ iteration = 0
    /\ least_score = 0
    /\ returned = <<>>
    /\ heap = <<>>
    /\ population = <<>>
    /\ new_population = <<>>
    /\ children = <<>>
    /\ parents = <<>>
    /\ generation = 0
    /\ best_individual = <<>>
    /\ least_cost = 0
    /\ unscheduled_file = [a \in Algorithms |-> NoFile]
    /\ reported_unscheduled = <<>>
    /\ runs = 1

outside_genetic == <<data, scheduler_vars, orchestrator_vars, calendar_vars, scoring_vars,
                     annealing_vars>>

\* generate_individual: the dictionaries it can make for job j
GeneratedEntries ==
    [j \in JobIds |-> {Entry(s, techs) : s \in GeneratedStarts(j),
                                         techs \in GATechnicians(j)}]

\* population = [self.generate_individual() for _ in range(POPULATION_SIZE)]:
\* individual p is made of the new dictionaries (p - 1) * n + 1 .. p * n
GeneratePopulation ==
    /\ pc = "populate"
    /\ pc' = "select"
    /\ \E individuals \in SeqsOf(Products(GAFeasibleJobs, GeneratedEntries), PopulationSize) :
           heap' = Concat(individuals)
    /\ population' = [p \in 1..PopulationSize |->
                         [i \in 1..GAJobs |-> (p - 1) * GAJobs + i]]
    /\ least_cost' = LeastCost(heap', population')
    /\ UNCHANGED <<outside_genetic, new_population, children, parents, generation,
                   best_individual>>

PairsPerGeneration == PopulationSize \div 2

SelectingParents ==
    /\ pc = "select"
    /\ generation < Generations
    /\ Len(new_population) < 2 * PairsPerGeneration

\* select_parents: the fittest of each of two random samples of the population
TournamentWinners ==
    {i \in 1..Len(population) :
        \E sample \in SubsetsOfSize(1..Len(population), TournamentSize) :
            /\ i \in sample
            /\ \A k \in sample : CostOf(heap, population[i]) <= CostOf(heap, population[k])}

\* crossover: the parents themselves when random.random() > CROSSOVER_RATE,
\* else two new lists of the parents' dictionaries, cut at crossover_point
Crossovers(parent1, parent2) ==
    {<<parent1, parent2>>}
    \cup {<<SubSeq(parent1, 1, point) \o SubSeq(parent2, point + 1, Len(parent2)),
            SubSeq(parent2, 1, point) \o SubSeq(parent1, point + 1, Len(parent1))>>
          : point \in 1..(Len(parent1) - 1)}

\* parent1, parent2 = select_parents(population); child1, child2 = crossover(...)
SelectAndCrossover ==
    /\ SelectingParents
    /\ pc' = "mutate"
    /\ \E p1 \in TournamentWinners, p2 \in TournamentWinners :
           /\ parents' = <<p1, p2>>
           /\ children' \in Crossovers(population[p1], population[p2])
    /\ UNCHANGED <<outside_genetic, heap, population, new_population, generation,
                   best_individual, least_cost>>

\* crossover on one-job individuals: random.randint(1, 0) raises ValueError
CrossoverRaises ==
    /\ SelectingParents
    /\ GAJobs = 1
    /\ pc' = "failed"
    /\ UNCHANGED <<outside_genetic, genetic_vars>>

\* mutate: each entry of the individual is, with probability MUTATION_RATE,
\* given a new start and new technicians, in the dictionary itself
RECURSIVE MutatedFrom(_, _, _)
MutatedFrom(h, individual, i) ==
    IF i > Len(individual) THEN {h}
    ELSE UNION {MutatedFrom(h2, individual, i + 1) :
                   h2 \in {h} \cup
                       {[h EXCEPT ![individual[i]] = Entry(s, techs)] :
                           s \in MutatedStarts(GAFeasibleJobs[i], h[individual[i]].start),
                           techs \in GATechnicians(GAFeasibleJobs[i])}}

MutatedHeaps(individual) == MutatedFrom(heap, individual, 1)

\* the child that the next call of mutate is applied to
NextChild == IF Len(new_population) % 2 = 0 THEN children[1] ELSE children[2]

\* new_population.extend([self.mutate(child1), self.mutate(child2)]), one call
Mutate ==
    /\ pc = "mutate"
    /\ heap' \in MutatedHeaps(NextChild)
    /\ new_population' = Append(new_population, NextChild)
    /\ pc' = IF Len(new_population) % 2 = 0 THEN "mutate" ELSE "select"
    /\ UNCHANGED <<outside_genetic, population, children, parents, generation,
                   best_individual, least_cost>>

\* population = new_population; best_individual = max(population, key=self.fitness)
EndGeneration ==
    /\ pc = "select"
    /\ generation < Generations
    /\ Len(new_population) = 2 * PairsPerGeneration
    /\ population' = new_population
    /\ new_population' = <<>>
    /\ best_individual' = FirstFittest(heap, population')
    /\ generation' = generation + 1
    /\ least_cost' = Min2(least_cost, LeastCost(heap, population'))
    /\ UNCHANGED <<outside_genetic, pc, heap, children, parents>>

\* return best_individual
GeneticReturn ==
    /\ pc = "select"
    /\ generation = Generations
    /\ pc' = "returned"
    /\ returned' = Deref(heap, best_individual)
    /\ UNCHANGED <<data, scheduler_vars, orchestrator_vars, calendar_vars, scoring_vars,
                   sa_current, sa_best, current_score, best_score, iteration, least_score,
                   genetic_vars>>

GeneticNext ==
    \/ GeneratePopulation
    \/ SelectAndCrossover
    \/ CrossoverRaises
    \/ Mutate
    \/ EndGeneration
    \/ GeneticReturn

GeneticSpec == GeneticInit /\ [][GeneticNext]_vars

(***************************************************************************)
(* Successive POSTs of the optimize form.  The data directory outlives a   *)
(* request: each optimiser writes unscheduled_jobs_<algorithm>.json when   *)
(* its pre-check rejects a job, and optimize reads the file of the chosen  *)
(* strategy back after the optimiser has returned.                         *)
(***************************************************************************)
MaxRuns == 2

OptimizeAlgorithms == Algorithms \ {"GREEDY"}

\* a job that passes every pre-check on either equipment, and one that needs
\* more of the drill than there is
RequestJobs ==
    {OptimizerJob({"s1"}, 2, <<>>, <<>>, "E1"),
     OptimizerJob({"s1"}, 2, <<>>, <<>>, "E2"),
     OptimizerJob({"s1"}, 2, <<ToolReq(2)>>, <<>>, "E1")}

RequestBundles ==
    UNION {{[jobs |-> jobs, equipment |-> [E1 |-> 1, E2 |-> 1],
             technicians |-> Technicians, tools |-> Tools, materials |-> Materials,
             t_start |-> Combine(0, SchedWorkdayEnd - 4),
             t_end |-> Combine(0, SchedWorkdayEnd)]
            : jobs \in SeqsOf(RequestJobs, n)} : n \in 1..MaxJobs}

RequestsInit ==
    /\ algorithm \in OptimizeAlgorithms
    /\ data \in RequestBundles
    /\ workdays = SchedWorkdays
    /\ current_time = data.t_start
    /\ status = [j \in JobIds |-> "unscheduled"]
    /\ scheduled_start_time = [j \in JobIds |-> -1]
    /\ scheduled_end_time = [j \in JobIds |-> -1]
    /\ assigned_technicians = [j \in JobIds |-> {}]
    /\ equipment_schedule = [eq \in EquipmentIds |-> <<>>]
    /\ tech_assignments = [t \in TechIds |-> <<>>]
    /\ tool_reservations = [tool \in ToolIds |-> <<>>]
    /\ quantity_used = [mat \in MaterialIds |-> 0]
    /\ schedule = <<>>
    /\ unscheduled_jobs = <<>>
    /\ pc = "post"
    /\ priority = 1
    /\ group_unscheduled = <<>>
    /\ unscheduled = <<>>
    /\ feasible = <<>>
    /\ optimized_schedule = <<>>
    /\ solver_status = "NOT_RUN"
    /\ instant = 0
    /\ duration_arg = 0
    /\ applied = "none"
    /\ result = 0
    /\ horizon_end = 0
    /\ windows = <<>>
    /\ candidate = <<>>
    /\ scored = "none"
    /\ ga_fitness = <<>>
    /\ sa_score = <<>>
    /\ sa_current = <<>>
    /\ sa_best = <<>>
    /\ current_score = 0
    /\ best_score = 0
    /\ iteration = 0
    /\ least_score = 0
    /\ returned = <<>>
    /\ heap = <<>>
    /\ population = <<>>
    /\ new_population = <<>>
    /\ children = <<>>
    /\ parents = <<>>
    /\ generation = 0
    /\ best_individual = <<>>
    /\ least_cost = 0
    /\ unscheduled_file = [a \in Algorithms |-> NoFile]
    /\ reported_unscheduled = <<>>
    /\ runs = 1

\* optimize, after optimizer() has returned a list or None: unscheduled_jobs
\* is the content of the strategy's file if the file exists, else []
ReadUnscheduled ==
    /\ pc \in {"returned", "returned_none"}
    /\ algorithm \in OptimizeAlgorithms
    /\ reported_unscheduled' = IF unscheduled_file[algorithm].exists
                               THEN unscheduled_file[algorithm].content ELSE <<>>
    /\ pc' = "reported"
    /\ UNCHANGED <<data, scheduler_vars, function_vars, algorithm, unscheduled, feasible,
                   optimized_schedule, solver_status, unscheduled_file, runs>>

\* the next POST of the form, after a request that ended with its messages
\* or with 'Optimization failed': the bundle and the strategy are new, the
\* data directory is the one the earlier requests left
NextRequest ==
    /\ pc \in {"reported", "failed"}
    /\ runs < MaxRuns
    /\ runs' = runs + 1
    /\ data' \in RequestBundles
    /\ algorithm' \in OptimizeAlgorithms
    /\ pc' = "post"
    /\ unscheduled' = <<>>
    /\ feasible' = <<>>
    /\ optimized_schedule' = <<>>
    /\ solver_status' = "NOT_RUN"
    /\ reported_unscheduled' = <<>>
    /\ UNCHANGED <<scheduler_vars, function_vars, unscheduled_file>>

RequestsNext ==
    \/ Review
    \/ Confirm
    \/ SA_optimize_schedule
    \/ GA_optimize_schedule
    \/ MILP_optimize_schedule
    \/ ORTools_optimize_schedule
    \/ ReadUnscheduled
    \/ NextRequest

RequestsSpec == RequestsInit /\ [][RequestsNext]_vars

(***************************************************************************)
(* Properties of the greedy scheduler.                                     *)
(***************************************************************************)
Scheduled(j) == status[j] = "scheduled"

\* C1: for every job B that lists job A as a predecessor, both committed,
\* B.scheduled_start_time >= A.scheduled_end_time (also when A and B use
\* different equipment and technicians and B is scanned at the current_time
\* at which A was committed).
C1_PrecedenceRespected ==
    \A b \in JobIds : \A a \in Job(b).precedence \cap JobIds :
        (Scheduled(a) /\ Scheduled(b))
            => scheduled_start_time[b] >= scheduled_end_time[a]

PairwiseDisjoint(intervals) ==
    \A i, k \in 1..Len(intervals) :
        i < k => (intervals[i][2] <= intervals[k][1] \/ intervals[k][2] <= intervals[i][1])

\* C2: in every reachable state, any two reservations in the schedule list
\* of one Equipment are non-overlapping: one ends at or before the other starts.
C2_EquipmentExclusive ==
    \A eq \in EquipmentIds : PairwiseDisjoint(equipment_schedule[eq])

\* two jobs of different start times are committed on one equipment
C2_Witness ==
    \E eq \in EquipmentIds :
        /\ Len(equipment_schedule[eq]) >= 2
        /\ equipment_schedule[eq][1][1] # equipment_schedule[eq][2][1]

InTechnicianCalendar(t) ==
    /\ Weekday(t) \in TechWorkdays
    /\ Hours(TechWorkdayStart) <= TimeOfDay(t)
    /\ TimeOfDay(t) <= Hours(TechWorkdayEnd)

\* C3: the assignments of one Technician are pairwise non-overlapping, and
\* every instant of every assignment interval [start, end] lies on one of the
\* technician's workdays between the technician's workday start and end.
C3_TechnicianInvariant ==
    \A t \in TechIds :
        /\ PairwiseDisjoint(tech_assignments[t])
        /\ \A i \in 1..Len(tech_assignments[t]) :
               \A x \in tech_assignments[t][i][1]..tech_assignments[t][i][2] :
                   InTechnicianCalendar(x)

\* the quantity of a tool reserved by the reservations that cover instant x
ReservedAt(tool, x) ==
    SeqSum([i \in 1..Len(tool_reservations[tool]) |->
              IF tool_reservations[tool][i][1] <= x /\ x < tool_reservations[tool][i][2]
              THEN tool_reservations[tool][i][3] ELSE 0])

\* C4: at every time instant, the sum of quantity_reserved over the
\* reservations of one Tool that cover the instant is <= its total_quantity,
\* for any job requirement lists.
C4_ToolCapacity ==
    \A tool \in ToolIds : \A x \in data.t_start..data.t_end :
        ReservedAt(tool, x) <= data.tools[tool]

RequestedByCommitted(mat) ==
    SeqSum([i \in 1..Len(schedule) |-> MaterialAllocatedBy(schedule[i], mat)])

\* C5: for every Material, quantity_used <= total_quantity, and quantity_used
\* is the sum of the requested quantities over all committed jobs.
C5_MaterialStock ==
    \A mat \in MaterialIds :
        /\ quantity_used[mat] <= data.materials[mat]
        /\ quantity_used[mat] = RequestedByCommitted(mat)

PrecheckRejects(j) == PrecheckReasons(data, Job(j)) # <<>>

PrecheckRejectsForQuantity(j) ==
    ToolReasons(data, Job(j)) \o MaterialReasons(data, Job(j)) # <<>>

\* C9 as claimed: no job that precheck_jobs rejects is a job that the greedy
\* scheduler schedules on the same bundle.
C9_PrecheckConservative ==
    \A j \in JobIds : PrecheckRejects(j) => ~Scheduled(j)

\* C9 as amended: no job that precheck_jobs rejects for a tool or material
\* quantity is scheduled by the greedy scheduler on the same bundle.
C9_QuantityRejectsNeverScheduled ==
    \A j \in JobIds : PrecheckRejectsForQuantity(j) => ~Scheduled(j)

\* the run is over, another job was committed, and a job that the pre-check
\* rejects for a quantity is on the scheduler's own rejection list
C9_Witness ==
    /\ pc = "done"
    /\ schedule # <<>>
    /\ \E i \in 1..Len(unscheduled_jobs) :
           PrecheckRejectsForQuantity(unscheduled_jobs[i][1])

\* the jobs reachable from j along precedence edges
RECURSIVE PredClosure(_, _)
PredClosure(frontier, seen) ==
    LET next == UNION {Job(k).precedence \cap JobIds : k \in frontier}
    IN  IF next \subseteq seen THEN seen
        ELSE PredClosure(next \ seen, seen \cup next)

HasPrecedenceCycle == \E j \in JobIds : j \in PredClosure({j}, {})

\* C10: a cycle in the precedence graph is fatal before any job is
\* scheduled: it yields no partial schedule and no per-job rejections.
C10_CycleIsFatal ==
    HasPrecedenceCycle => (schedule = <<>> /\ unscheduled_jobs = <<>>)

(***************************************************************************)
(* Properties of the orchestrator, the pre-check and the optimisers.       *)
(***************************************************************************)
SpanOf(start_time, end_time) == end_time - start_time

\* the job's duration fits between its start and the end of that workday
FitsStartDay(j) ==
    TimeOfDay(scheduled_start_time[j]) + Duration(j) <= Hours(SchedWorkdayEnd)

OptimizerSpansAreDurations ==
    \A i \in 1..Len(optimized_schedule) :
        SpanOf(optimized_schedule[i].scheduled_start_time,
               optimized_schedule[i].scheduled_end_time)
            = Duration(optimized_schedule[i].job_id)

\* C6 as claimed: for every assignment in the output of every strategy
\* (greedy, constraint, genetic, annealing), scheduled_end_time -
\* scheduled_start_time equals the job's declared duration.
C6_SpanIsDuration ==
    /\ OptimizerSpansAreDurations
    /\ \A j \in JobIds :
           Scheduled(j)
               => SpanOf(scheduled_start_time[j], scheduled_end_time[j]) = Duration(j)

\* C6 as amended: in the output of the constraint, genetic and annealing
\* strategies end - start equals the declared duration; in the output of the
\* greedy strategy end - start is at least the declared duration, and equals
\* it exactly when the duration fits in the working day the job starts on.
C6_SpanIsDurationOrMultiDay ==
    /\ OptimizerSpansAreDurations
    /\ \A j \in JobIds :
           Scheduled(j)
               => /\ SpanOf(scheduled_start_time[j], scheduled_end_time[j]) >= Duration(j)
                  /\ (SpanOf(scheduled_start_time[j], scheduled_end_time[j]) = Duration(j))
                         <=> FitsStartDay(j)

\* the greedy strategy has committed a job that ends on a later day
C6_Witness ==
    \E j \in JobIds :
        /\ Scheduled(j)
        /\ DateOf(scheduled_end_time[j]) > DateOf(scheduled_start_time[j])
        /\ SpanOf(scheduled_start_time[j], scheduled_end_time[j]) > Duration(j)

OptimizedJobs == {optimized_schedule[i].job_id : i \in 1..Len(optimized_schedule)}

ReviewRejected == {unscheduled[i][1] : i \in 1..Len(unscheduled)}

\* C7: a job that precheck_jobs puts on the rejection list for a bundle never
\* appears in the assignment list of a strategy the orchestrator runs on the
\* same bundle (MILP, OR-Tools, GA, SA), whichever check it failed.
C7_RejectedNeverOptimized == ReviewRejected \cap OptimizedJobs = {}

PrecheckHasRun == pc \in {"review", "optimize", "returned", "returned_none", "failed"}

ReviewFeasible == {feasible[i] : i \in 1..Len(feasible)}

ReasonsInReview(j) ==
    LET i == CHOOSE k \in 1..Len(unscheduled) : unscheduled[k][1] = j
    IN  unscheduled[i][2]

FailingToolEntries(j) ==
    {i \in 1..Len(Job(j).required_tools) :
        Job(j).required_tools[i].quantity > ToolCap(data, Job(j).required_tools[i].tool_id)}

FailingMaterialEntries(j) ==
    {i \in 1..Len(Job(j).required_materials) :
        Job(j).required_materials[i].quantity
            > MaterialCap(data, Job(j).required_materials[i].material_id)}

SomeTechnicianCovers(j) ==
    \E t \in TechIds : Job(j).required_skills \subseteq data.technicians[t].skills

FitsWorkday(j) == Job(j).duration <= WORKDAY_END - WORKDAY_START

Count(b) == IF b THEN 1 ELSE 0

EachJobInOneList ==
    /\ ReviewFeasible \cup ReviewRejected = JobIds
    /\ ReviewFeasible \cap ReviewRejected = {}
    /\ Len(feasible) + Len(unscheduled) = Len(data.jobs)

IterationPending == algorithm = "GREEDY" /\ pc = "loop" /\ LoopCondition

\* the iteration about to run commits a job, or leaves current_time later
\* than it found it, or raises
NextIterationProgresses ==
    IterationPending =>
        \/ NextWorkingTimeOverflows(current_time)
        \/ LET ct == get_next_working_time(current_time)
           IN  \/ FeasibleJobs(ct) # <<>>
               \/ AdvancedTime(ct) > current_time

\* current_time never passes the first working time after the horizon
TimeBounded == current_time <= get_next_working_time(data.t_end)

\* with no working day the first iteration raises; the run never returns
EmptyCalendarRaises ==
    (algorithm = "GREEDY" /\ workdays = {}) =>
        /\ pc # "done"
        /\ current_time = data.t_start
        /\ IterationPending => NextWorkingTimeOverflows(current_time)

\* an iteration that has run committed one pending job or moved
\* current_time forward
IterationProgressed ==
    (pc = "loop" /\ pc' = "loop") =>
        \/ /\ Len(schedule') = Len(schedule) + 1
           /\ Len(group_unscheduled') = Len(group_unscheduled) - 1
           /\ current_time' >= current_time
        \/ /\ schedule' = schedule
           /\ group_unscheduled' = group_unscheduled
           /\ current_time' > current_time

\* C11: Scheduler.run terminates on every bundle: iterations run only while
\* current_time is before the end of the horizon and a job is pending, each
\* iteration commits one pending job or strictly advances current_time (so
\* the pair of the pending count and the time left strictly decreases),
\* and a run on a calendar without working days ends in an exception at its
\* first search for a working time instead of searching forever.
C11_RunTerminates ==
    /\ [](NextIterationProgresses /\ EmptyCalendarRaises)
    /\ []((workdays # {}) => TimeBounded)
    /\ [][IterationProgressed]_vars

\* a run that committed, advanced to the end of the horizon and returned
C11_Witness ==
    /\ pc = "done"
    /\ current_time >= data.t_end
    /\ schedule # <<>>
    /\ unscheduled_jobs # <<>>

\* a run on the calendar without working days that has raised
C11_EmptyCalendarWitness == workdays = {} /\ pc = "overflow_error"

(***************************************************************************)
(* C12.  Priority order of the greedy scheduler.                           *)
(***************************************************************************)
PriorityOf(j) == data.equipment[Job(j).equipment_id]

\* a job of a lower priority value is committed before, and starts no later
\* than, a job of a higher one
CommittedInPriorityOrder ==
    \A i, k \in 1..Len(schedule) :
        PriorityOf(schedule[i]) < PriorityOf(schedule[k]) =>
            /\ i < k
            /\ scheduled_start_time[schedule[i]] <= scheduled_start_time[schedule[k]]

\* C12: for any integer equipment priorities the jobs are grouped by
\* priority and the groups are run in ascending order, so the run does not
\* fail on a priority value and committed jobs are in priority order.
C12_PriorityOrder ==
    (algorithm = "GREEDY") =>
        /\ pc # "key_error"
        /\ CommittedInPriorityOrder

(***************************************************************************)
(* C13.  Selection of the job to commit.                                   *)
(***************************************************************************)
\* the time committed on equipment eq: the spans of its committed jobs
RECURSIVE SpanSum(_, _)
SpanSum(eq, js) ==
    IF js = {} THEN 0
    ELSE LET j == CHOOSE x \in js : TRUE
         IN  (IF Job(j).equipment_id = eq
              THEN scheduled_end_time[j] - scheduled_start_time[j] ELSE 0)
             + SpanSum(eq, js \ {j})

CommittedJobs == {schedule[i] : i \in 1..Len(schedule)}

MaxLoad == SetMax({SpanSum(eq, CommittedJobs) : eq \in EquipmentIds})

\* the largest cumulative time if job j were committed at the working time ws
MaxLoadWith(j, ws) ==
    SetMax({SpanSum(eq, CommittedJobs)
              + (IF Job(j).equipment_id = eq
                 THEN calculate_job_end_time(ws, Duration(j)) - ws ELSE 0)
            : eq \in EquipmentIds})

PendingJobs == {group_unscheduled[i] : i \in 1..Len(group_unscheduled)}

\* a step of the loop within one group
ScanStep == pc = "loop" /\ pc' = "loop"

\* the step is a commit of job j, chosen as the claim says
CommitsBest(j) ==
    LET ws == get_next_working_time(current_time)
        candidates == {k \in PendingJobs : is_job_feasible(k, ws)}
        least == {k \in candidates :
                     \A m \in candidates : MaxLoadWith(k, ws) <= MaxLoadWith(m, ws)}
    IN  /\ schedule' = Append(schedule, j)
        /\ j \in least
        /\ \A k \in least : effective_duration(j) <= effective_duration(k)

\* C13: a scan that finds pending jobs of the group feasible commits exactly
\* one job; it is a feasible job whose addition increases the largest
\* cumulative equipment time least and, among those, one of least effective
\* duration; a scan that finds none commits nothing.
C13_SelectsLeastIncrease ==
    [][ScanStep =>
          IF \E k \in PendingJobs :
                 is_job_feasible(k, get_next_working_time(current_time))
          THEN \E j \in PendingJobs : CommitsBest(j)
          ELSE schedule' = schedule]_vars

\* the job committed last was chosen over a pending job ahead of it in the
\* sorted group: that job is ready without it, needs the same equipment
\* and skills from the same start, and is longer
C13_Witness ==
    /\ pc = "loop"
    /\ schedule # <<>>
    /\ LET b == schedule[Len(schedule)]
       IN  \E j \in PendingJobs :
               /\ SortsBefore(j, b)
               /\ is_ready(j)
               /\ b \notin Job(j).precedence
               /\ Job(j).equipment_id = Job(b).equipment_id
               /\ Job(j).required_skills = Job(b).required_skills
               /\ Duration(j) > Duration(b)
               /\ scheduled_start_time[b] = current_time
               /\ calculate_job_end_time(current_time, Duration(j)) <= data.t_end

(***************************************************************************)
(* C14.  The team assigned to a committed job.                             *)
(***************************************************************************)
\* the step commits a job
CommitStep == Len(schedule') = Len(schedule) + 1

\* the technicians that Technician.is_available accepts for [s, e] before
\* the commit
AvailableAtCommit(s, e) == {t \in TechIds : TechnicianIsAvailable(t, s, e)}

\* the team of the job just committed is available and covers the job
TeamAvailableAndCovering ==
    LET j == schedule'[Len(schedule')]
        team == assigned_technicians'[j]
    IN  /\ team \subseteq
               AvailableAtCommit(scheduled_start_time'[j], scheduled_end_time'[j])
        /\ Job(j).required_skills \subseteq SkillsCovered(team)

\* no team out of `teams` that covers the job just committed is smaller
NoSmallerTeamIn(teams) ==
    LET j == schedule'[Len(schedule')]
    IN  \A c \in teams :
            Job(j).required_skills \subseteq SkillsCovered(c) =>
                Cardinality(assigned_technicians'[j]) <= Cardinality(c)

TimesCommitted(j) == Cardinality({i \in 1..Len(schedule) : schedule[i] = j})

TimesRejected(j) ==
    Cardinality({i \in 1..Len(unscheduled_jobs) : unscheduled_jobs[i][1] = j})

\* a predecessor of j that is not a scheduled job
HasUnscheduledPredecessor(j) ==
    \E pred \in Job(j).precedence : ~(pred \in JobIds /\ status[pred] = "scheduled")

\* the entries that the step appends to the rejection list carry the
\* reason that the statuses at that moment give
RejectionsCarryReason ==
    \A i \in (Len(unscheduled_jobs) + 1)..Len(unscheduled_jobs') :
        LET j == unscheduled_jobs'[i][1]
            reason == unscheduled_jobs'[i][2]
        IN  /\ status[j] = "unscheduled"
            /\ IF HasUnscheduledPredecessor(j)
               THEN reason = "Predecessor jobs not completed."
               ELSE reason = "Resource constraints or scheduling window exceeded."

\* C15: when Scheduler.run returns, every job is either committed once or
\* rejected once, never both and never neither; and a job is rejected with
\* the predecessor reason exactly when one of its predecessors is not
\* scheduled at the moment its group ends, and with the resource/window
\* reason otherwise.
C15_CommittedOrRejected ==
    /\ []((algorithm = "GREEDY" /\ pc = "done") =>
             \A j \in JobIds : TimesCommitted(j) + TimesRejected(j) = 1)
    /\ [][RejectionsCarryReason]_vars

\* a returned run that committed a job and rejected another for its
\* predecessor
C15_Witness ==
    /\ pc = "done"
    /\ schedule # <<>>
    /\ \E i \in 1..Len(unscheduled_jobs) :
           /\ unscheduled_jobs[i][2] = "Predecessor jobs not completed."
           /\ HasUnscheduledPredecessor(unscheduled_jobs[i][1])

\* a returned run that rejected a job whose predecessors are all scheduled
C15_ResourceReasonWitness ==
    /\ pc = "done"
    /\ \E i \in 1..Len(unscheduled_jobs) :
           /\ unscheduled_jobs[i][2] = "Resource constraints or scheduling window exceeded."
           /\ ~HasUnscheduledPredecessor(unscheduled_jobs[i][1])

(***************************************************************************)
(* C16.  The only matching technician is busy.                             *)
(***************************************************************************)
\* the technicians whose skills match job j
MatchingTechs(j) ==
    {t \in TechIds : Job(j).required_skills \subseteq data.technicians[t].skills}

\* technician t is committed to a job over a window that overlaps [s, e]
CommittedOver(t, s, e) ==
    \E i \in 1..Len(tech_assignments[t]) :
        Overlaps(s, e, tech_assignments[t][i][1], tech_assignments[t][i][2])

\* a scan never commits a job whose only matching technician is committed
\* over the tentative window
BusySoleTechnicianNotEligible ==
    [][CommitStep =>
          LET j == schedule'[Len(schedule')]
          IN  \A t \in TechIds :
                  MatchingTechs(j) = {t} =>
                      ~CommittedOver(t, scheduled_start_time'[j],
                                     scheduled_end_time'[j])]_vars

\* job j needs nothing but its equipment, which no job has taken, and one
\* technician, who is the only one that matches and is committed to
\* another job
RejectedForBusyTechnician(j) ==
    /\ Job(j).precedence = {}
    /\ Job(j).required_tools = <<>>
    /\ Job(j).required_materials = <<>>
    /\ equipment_schedule[Job(j).equipment_id] = <<>>
    /\ \E t \in TechIds : MatchingTechs(j) = {t} /\ tech_assignments[t] # <<>>

\* C16: a job whose only matching technician is committed to an overlapping
\* job is not given that technician, and when no other technician
\* qualifies it is rejected with the reason "no matching technicians".
C16_RejectedForNoMatchingTechnicians ==
    (algorithm = "GREEDY" /\ pc = "done") =>
        \A i \in 1..Len(unscheduled_jobs) :
            RejectedForBusyTechnician(unscheduled_jobs[i][1]) =>
                unscheduled_jobs[i][2] = "No matching technicians with required skills."

(***************************************************************************)
(* C17.  The next working instant of both calendars.                       *)
(***************************************************************************)
\* r is a working instant at or after t with no working instant in [t, r)
FirstWorkingInstantFrom(t, r, Working(_)) ==
    /\ Working(r)
    /\ r >= t
    /\ \A x \in t..(r - 1) : ~Working(x)
    /\ Working(t) => r = t

\* Scheduler.get_next_working_time returns the first working instant and
\* maps its own result to itself
GreedyNextWorkingInstant ==
    (applied = "get_next_working_time") =>
        /\ FirstWorkingInstantFrom(instant, result, is_within_working_hours)
        /\ get_next_working_time(result) = result

\* the same of GeneticAlgorithm.next_working_hour
MetaheuristicNextWorkingInstant ==
    (applied = "next_working_hour") =>
        /\ FirstWorkingInstantFrom(instant, result, is_working_hour)
        /\ next_working_hour(result) = result

\* C17: in the greedy calendar and in the metaheuristic calendar the next
\* working instant r of any instant t is a working instant, r >= t, no
\* working instant lies in [t, r), and r = t when t is a working instant.
C17_NextWorkingInstant ==
    GreedyNextWorkingInstant /\ MetaheuristicNextWorkingInstant

(***************************************************************************)
(* C18.  The end time of a job that may span several days.                 *)
(***************************************************************************)
\* the working time in [s, e): its ticks that are working instants
WorkingTicksIn(s, e) == Cardinality({x \in s..(e - 1) : is_within_working_hours(x)})

\* t is in a working window or at its close
InOrAtCloseOfWindow(t) ==
    \/ is_within_working_hours(t)
    \/ Weekday(t) \in workdays /\ TimeOfDay(t) = Hours(SchedWorkdayEnd)

\* C18: for a working instant start and a duration d >= 0,
\* calculate_job_end_time(start, d) is an end >= start, the working time in
\* [start, end] is d, the end is inside a working window or at its close,
\* and a job longer than one workday ends on a later day.
C18_EndTimeSpansWorkingTime ==
    (applied = "calculate_job_end_time") =>
        /\ result >= instant
        /\ WorkingTicksIn(instant, result) = Hours(duration_arg)
        /\ InOrAtCloseOfWindow(result)
        /\ (duration_arg > SchedWorkdayEnd - SchedWorkdayStart) =>
               DateOf(result) > DateOf(instant)

\* a job of more than a workday that starts on a Friday afternoon and ends
\* after the weekend
C18_Witness ==
    /\ applied = "calculate_job_end_time"
    /\ duration_arg > SchedWorkdayEnd - SchedWorkdayStart
    /\ Weekday(instant) = 4
    /\ TimeOfDay(instant) > Hours(SchedWorkdayStart)
    /\ Weekday(result) = 1

(***************************************************************************)
(* C19.  Technicians in the solutions of the constraint model.             *)
(***************************************************************************)
ConstraintSolutionReturned ==
    algorithm \in {"MILP", "ORTOOLS"} /\ pc = "returned"

\* no technician of a returned solution works on two jobs at once
ConstraintTechniciansDisjoint ==
    ConstraintSolutionReturned =>
        \A i, k \in 1..Len(optimized_schedule) :
            (i # k /\ optimized_schedule[i].assigned_technicians
                         \cap optimized_schedule[k].assigned_technicians # {})
                => \/ optimized_schedule[i].scheduled_end_time
                           <= optimized_schedule[k].scheduled_start_time
                   \/ optimized_schedule[k].scheduled_end_time
                           <= optimized_schedule[i].scheduled_start_time

\* C19: every solution that optimiser_ortools or optimiser_milp returns
\* assigns exactly one technician to each scheduled job, whatever the
\* number of skills the job requires, and no technician's busy intervals
\* overlap.
C19_SingleAssignee ==
    /\ ConstraintSolutionReturned =>
           \A i \in 1..Len(optimized_schedule) :
               Cardinality(optimized_schedule[i].assigned_technicians) = 1
    /\ ConstraintTechniciansDisjoint

(***************************************************************************)
(* C20.  What the constraint optimisers return without a solution.         *)
(***************************************************************************)
\* what the caller of optimize_schedule receives: None or a list
ReturnValue == <<pc = "returned_none", optimized_schedule>>

\* the value of the branch that a solve proved INFEASIBLE ends in:
\* [] in optimiser_milp, None in optimiser_ortools
InfeasibleReturn == <<algorithm = "ORTOOLS", <<>>>>

SolverRan ==
    /\ algorithm \in {"MILP", "ORTOOLS"}
    /\ pc \in {"returned", "returned_none"}
    /\ solver_status # "NOT_RUN"

\* a proof of infeasibility returns that value, a solution does not
InfeasibleAndScheduleDistinguished ==
    SolverRan =>
        /\ (solver_status = "INFEASIBLE") => ReturnValue = InfeasibleReturn
        /\ (solver_status \in {"OPTIMAL", "FEASIBLE"}) =>
               ReturnValue # InfeasibleReturn

\* C20: the value returned when the solver runs out of time without a
\* solution differs from the value returned when the model is proven
\* infeasible, and both differ from a schedule.
C20_TimeoutDistinguished ==
    /\ InfeasibleAndScheduleDistinguished
    /\ (SolverRan /\ solver_status = "UNKNOWN") => ReturnValue # InfeasibleReturn

(***************************************************************************)
(* C21.  The working-day windows of the constraint optimisers.             *)
(***************************************************************************)
\* the 08:00-17:00 window of date d, clipped to the horizon [t_start, t_end]
ClippedStart(d, t_start) == Max2(Combine(d, CpWorkdayStart), t_start)

ClippedEnd(d, t_end) == Min2(Combine(d, CpWorkdayEnd), t_end)

\* the working weekdays whose window intersects the horizon
IntersectingDays(t_start, t_end) ==
    {d \in DateOf(t_start)..DateOf(t_end) :
        /\ d % 7 \in CpWorkdays
        /\ ClippedStart(d, t_start) < ClippedEnd(d, t_end)}

ClippedWindow(d, t_start, t_end) ==
    <<ClippedStart(d, t_start) - t_start, ClippedEnd(d, t_end) - t_start>>

WindowsReturned == applied = "generate_working_windows"

WindowsIncreasingAndDisjoint ==
    /\ \A i \in 1..Len(windows) : windows[i][1] < windows[i][2]
    /\ \A i \in 1..(Len(windows) - 1) : windows[i][2] <= windows[i + 1][1]

\* What holds: the list is increasing and pairwise disjoint, every window
\* in it is the clipped window of a working day that intersects the
\* horizon, and the only day that can be missing is the last day of the
\* horizon, when t_end is not later in its day than t_start is in its own.
ReturnedWindowsAreClippedWorkingDays ==
    WindowsReturned =>
        /\ WindowsIncreasingAndDisjoint
        /\ \A i \in 1..Len(windows) :
               \E d \in IntersectingDays(instant, horizon_end) :
                   windows[i] = ClippedWindow(d, instant, horizon_end)
        /\ \A d \in IntersectingDays(instant, horizon_end) :
               (\A i \in 1..Len(windows) :
                    windows[i] # ClippedWindow(d, instant, horizon_end))
                   => /\ d = DateOf(horizon_end)
                      /\ d > DateOf(instant)
                      /\ TimeOfDay(horizon_end) <= TimeOfDay(instant)

\* C21: for every horizon, generate_working_windows returns, in increasing
\* order and pairwise disjoint, exactly the clipped window of each working
\* weekday whose 08:00-17:00 window intersects the horizon; none is missing.
C21_WorkingWindows ==
    WindowsReturned =>
        /\ WindowsIncreasingAndDisjoint
        /\ {windows[i] : i \in 1..Len(windows)}
               = {ClippedWindow(d, instant, horizon_end) :
                     d \in IntersectingDays(instant, horizon_end)}
        /\ Len(windows) = Cardinality(IntersectingDays(instant, horizon_end))

(***************************************************************************)
(* C22.  The scoring functions of genetic search and simulated annealing.  *)
(***************************************************************************)
BothScored == scored = "both"

\* fitness is maximised (max(population, key=self.fitness))
GAPrefersFirst == ga_fitness[1] < ga_fitness[2]

\* evaluate is minimised (cand_score < current_score)
SAPrefersFirst == sa_score[1] < sa_score[2]

\* C22: for any two candidate schedules over the same jobs and resources,
\* GA's fitness prefers the first to the second iff SA's evaluate does.
C22_SameScoring == BothScored => (GAPrefersFirst <=> SAPrefersFirst)

(***************************************************************************)
(* C28.  The tool penalty of simulated annealing's evaluate.               *)
(***************************************************************************)
\* the summed demand for a tool of the jobs whose interval covers instant x
DemandAt(sched, tool, x) ==
    SeqSum([i \in 1..Len(sched) |->
               IF sched[i].scheduled_start_time <= x /\ x < sched[i].scheduled_end_time
               THEN ToolDemand(sched[i].job_id, tool) ELSE 0])

ExceedsCapacity(sched, tool) ==
    \E x \in SetMin(StartTimes(sched))..SetMax(EndTimes(sched)) :
        DemandAt(sched, tool, x) > data.tools[tool]

ToolPenaltyIffExceeded(sched, tool) ==
    (SAToolPenalty(sched, tool) > 0) <=> ExceedsCapacity(sched, tool)

\* What holds: for the first tool of the input the penalty is added iff the
\* demand exceeds its capacity at some instant, and touching jobs add none.
FirstToolPenaltyIffExceeded ==
    BothScored => ToolPenaltyIffExceeded(candidate[1], data.tool_ids[1])

\* C28: evaluate adds a tool-capacity penalty for a tool iff at some instant
\* the summed demand of the jobs covering that instant exceeds that same
\* tool's total quantity, for every tool in the input.
C28_ToolPenalty ==
    BothScored => \A tool \in ToolIds : ToolPenaltyIffExceeded(candidate[1], tool)

(***************************************************************************)
(* C24.  Best-ever tracking of simulated annealing.                        *)
(***************************************************************************)
Annealing == pc \in {"anneal", "returned"} /\ algorithm = "SA" /\ sa_current # <<>>

\* best_score <= current_score; best_score is the score of best and the
\* least score of the initial solution and of every candidate generated
BestIsLeastSoFar ==
    Annealing =>
        /\ best_score <= current_score
        /\ best_score = least_score
        /\ evaluate(sa_best) = best_score
        /\ evaluate(sa_current) = current_score

\* the list returned is best, whatever the last accepted solution scores
ReturnsBest ==
    (Annealing /\ pc = "returned") =>
        /\ returned = sa_best
        /\ evaluate(returned) = least_score

BestScoreNeverIncreases == Annealing => best_score' <= best_score

\* C24: at every step of the annealing loop best_score <= current_score,
\* best_score never increases, and the solution returned has the minimum
\* score among the initial solution and all candidates generated by perturb,
\* whether or not the last accepted solution is worse.
C24_BestEverTracking ==
    /\ [](BestIsLeastSoFar /\ ReturnsBest)
    /\ [][BestScoreNeverIncreases]_vars

\* a run that returned a solution better than the last accepted one
C24_Witness ==
    /\ Annealing
    /\ pc = "returned"
    /\ iteration = MaxIterations
    /\ current_score > best_score
    /\ returned # sa_current

(***************************************************************************)
(* C23.  The individual that genetic search returns.                       *)
(***************************************************************************)
GeneticReturned == pc = "returned" /\ algorithm = "GA" /\ population # <<>>

\* What holds: the individual returned is a fittest one of the last
\* generation's population.
ReturnsFittestOfLastGeneration ==
    GeneticReturned => FitnessCost(returned) = LeastCost(heap, population)

\* C23: the individual returned by GeneticAlgorithm.optimize has a fitness
\* at least as good as every individual of the initial population and of
\* every generation's population evaluated during the run.
C23_ReturnsBestEver == GeneticReturned => FitnessCost(returned) <= least_cost

(***************************************************************************)
(* C30.  What a call of mutate changes.                                    *)
(***************************************************************************)
Mutating == pc = "mutate" /\ algorithm = "GA"

\* the child that the other call of mutate of this pair is applied to
OtherChild == IF Len(new_population) % 2 = 0 THEN children[2] ELSE children[1]

\* crossover made new lists (random.random() <= CROSSOVER_RATE)
CrossoverApplied ==
    children # <<population[parents[1]], population[parents[2]]>>

ParentsUnchanged ==
    \A p \in {parents[1], parents[2]} :
        Deref(heap', population[p]) = Deref(heap, population[p])

OtherOffspringUnchanged ==
    /\ OtherChild # NextChild => Deref(heap', OtherChild) = Deref(heap, OtherChild)
    /\ \A k \in 1..Len(new_population) :
           new_population[k] # NextChild
               => Deref(heap', new_population[k]) = Deref(heap, new_population[k])

\* What holds: mutate writes only into the dictionaries of the individual it
\* is given, whoever else holds them.
MutateWritesOnlyItsEntries ==
    [][Mutating => \A id \in DOMAIN heap :
                       heap'[id] # heap[id] => \E i \in 1..Len(NextChild) : NextChild[i] = id]_vars

\* C30: mutating one offspring changes only that offspring: the (start, end,
\* technicians) values of its parents in the current population and of every
\* other offspring of the same generation are unchanged by the mutation, both
\* when crossover was applied and when the parents passed through unchanged.
C30_MutationIsolated ==
    [][Mutating => ParentsUnchanged /\ OtherOffspringUnchanged]_vars

(***************************************************************************)
(* C27.  The rejection list reported for a request.                        *)
(***************************************************************************)
Reported == pc = "reported"

\* the pre-check of the strategy of this request
StrategyUnscheduled ==
    IF algorithm = "MILP" THEN OwnUnscheduled(IntersectingTechsOf)
    ELSE IF algorithm \in {"GA", "SA"} THEN OwnUnscheduled(SubsetTechsOf)
    ELSE <<>>

\* neither precheck_jobs nor the strategy's own pre-check rejects a job
NoJobRejected == PrecheckUnscheduled(data) = <<>> /\ StrategyUnscheduled = <<>>

\* What holds: the list reported is the content of the strategy's file, and
\* it is this request's own rejection list when this request rejected a job
\* or no file of the strategy was there before.
ReportsFileOfStrategy ==
    Reported =>
        /\ unscheduled_file[algorithm].exists
               => reported_unscheduled = unscheduled_file[algorithm].content
        /\ ~unscheduled_file[algorithm].exists => reported_unscheduled = <<>>
        /\ StrategyUnscheduled # <<>> => reported_unscheduled = StrategyUnscheduled
        /\ runs = 1 => reported_unscheduled = StrategyUnscheduled

\* C27: after any sequence of runs, if the latest run's pre-check rejects no
\* job, the orchestrator reports an empty rejection list for it, even when
\* an earlier run of the same strategy rejected jobs.
C27_RunIndependence == (Reported /\ NoJobRejected) => reported_unscheduled = <<>>

(***************************************************************************)
(* C29.  The cursor of the greedy scheduler.                               *)
(***************************************************************************)
GreedyRun == algorithm = "GREEDY"

IsRejected(j) == \E i \in 1..Len(unscheduled_jobs) : unscheduled_jobs[i][1] = j

CursorNeverDecreases == GreedyRun => current_time' >= current_time

\* an iteration that commits a job leaves the cursor at the instant the
\* iteration scanned at (line 241), where the committed job starts
CommitKeepsCursor ==
    (GreedyRun /\ schedule' # schedule) =>
        /\ current_time' = get_next_working_time(current_time)
        /\ scheduled_start_time'[schedule'[Len(schedule')]] = current_time'

NoCommitAfterHorizonEnd ==
    (GreedyRun /\ current_time >= data.t_end) => schedule' = schedule

\* a job is rejected only by a loop that the cursor ended
RejectedByCursor ==
    GreedyRun => \A j \in JobIds : IsRejected(j) => current_time >= data.t_end

\* after the run, the jobs of every group later than a group with a
\* rejected job are all rejected and none of them is scheduled
LaterGroupsRejected ==
    (GreedyRun /\ pc = "done") =>
        \A j, k \in JobIds :
            (IsRejected(j) /\ PriorityOf(k) > PriorityOf(j))
                => (IsRejected(k) /\ ~Scheduled(k))

\* C29: current_time never decreases during Scheduler.run and is left
\* unchanged by a commit; consequently, if a priority group's loop ends
\* because current_time reached the horizon end while a job of that group was
\* still pending, no job of any later priority group is scheduled and every
\* one of them is put on the rejection list.
C29_GlobalCursor ==
    /\ [](RejectedByCursor /\ LaterGroupsRejected)
    /\ [][CursorNeverDecreases /\ CommitKeepsCursor /\ NoCommitAfterHorizonEnd]_vars

\* a run in which the first group ran the cursor to the end of the horizon
\* with a job pending, and a two-hour job of the second group, on equipment
\* of its own and without predecessors, was rejected
C29_Witness ==
    /\ GreedyRun
    /\ pc = "done"
    /\ current_time >= data.t_end
    /\ \E j, k \in JobIds :
           /\ PriorityOf(j) = 1 /\ IsRejected(j)
           /\ PriorityOf(k) = 2 /\ IsRejected(k) /\ ~Scheduled(k)
           /\ Job(k).duration = 2 /\ Job(k).precedence = {}
           /\ Job(k).equipment_id # Job(j).equipment_id

(***************************************************************************)
(* C26.  The order of the assignment lists.                                *)
(***************************************************************************)
NonDecreasing(times) ==
    \A i \in 1..(Len(times) - 1) : times[i] <= times[i + 1]

\* Scheduler.schedule, in commit order
GreedyStarts == [i \in 1..Len(schedule) |-> scheduled_start_time[schedule[i]]]

\* the list an optimiser returned
OptimizerStarts ==
    [i \in 1..Len(optimized_schedule) |-> optimized_schedule[i].scheduled_start_time]

OptimizerReturned == pc = "returned" /\ algorithm # "GREEDY"

\* What holds: the greedy schedule is in non-decreasing order of start time,
\* and an optimiser's list is in the order of the jobs of the input.
GreedySortedOptimizersInInputOrder ==
    /\ algorithm = "GREEDY" => NonDecreasing(GreedyStarts)
    /\ OptimizerReturned =>
           NonDecreasing([i \in 1..Len(optimized_schedule) |-> optimized_schedule[i].job_id])

\* C26: the assignment list produced by every strategy (the greedy schedule
\* in commit order, and the lists returned by the constraint, genetic and
\* annealing optimizers) is sorted by non-decreasing scheduled start time.
C26_SortedByStartTime ==
    /\ algorithm = "GREEDY" => NonDecreasing(GreedyStarts)
    /\ OptimizerReturned => NonDecreasing(OptimizerStarts)

(***************************************************************************)
(* C25.  How a run of genetic search or simulated annealing ends.          *)
(***************************************************************************)
MetaheuristicRun == algorithm \in {"GA", "SA"}

MetaheuristicFeasibleJobs == IF algorithm = "GA" THEN GAFeasibleJobs ELSE SAFeasibleJobs

\* optimize_schedule has returned a list, returned None or raised
MetaheuristicEnded == pc \in {"returned", "returned_none", "failed"}

\* What holds: a list that is returned has one entry per feasible job, in
\* the order of the feasible jobs.
ReturnedListCoversFeasibleJobs ==
    (MetaheuristicRun /\ pc = "returned") =>
        /\ Len(optimized_schedule) = Len(MetaheuristicFeasibleJobs)
        /\ \A i \in 1..Len(optimized_schedule) :
               optimized_schedule[i].job_id = MetaheuristicFeasibleJobs[i]

\* genetic search is at generate_individual with a job that no start time
\* takes out of its while loop
GeneticSearchCannotReturn ==
    /\ algorithm = "GA"
    /\ pc = "optimize"
    /\ \E i \in 1..Len(GAFeasibleJobs) : GAStartTimes(GAFeasibleJobs[i]) = {}

\* C25: for every input whose feasible job set is non-empty (including
\* exactly one feasible job, and jobs whose duration exceeds the workday or
\* the horizon), GA and SA optimize_schedule return an assignment list with
\* one entry per feasible job, never raising, never looping forever and never
\* returning None.
C25_MetaheuristicsNeverFail ==
    /\ (MetaheuristicRun /\ MetaheuristicEnded /\ MetaheuristicFeasibleJobs # <<>>)
           => (pc = "returned"
               /\ Len(optimized_schedule) = Len(MetaheuristicFeasibleJobs))
    /\ ~GeneticSearchCannotReturn

====
